---- MODULE Spec2Model ----
(***************************************************************************)
(* Model of the secondary-indexing core:                                   *)
(*   - the projector admin client (retry loop and the API calls built on   *)
(*     it), secondary/projector/client/client.go lines 63-615;             *)
(*   - the KV data path (scatter loop, vbucket routine map),               *)
(*     secondary/projector/client/client.go lines 632-911.                 *)
(* Each component has its own specification (SpecClient, SpecKV); the      *)
(* variables of the other component stay at their initial value.           *)
(***************************************************************************)
EXTENDS Integers, Sequences, FiniteSets, TLC

VARIABLES
    client,   \* the Client struct: retryInterval, maxRetries, expBackoff
    api,      \* the admin-client API call in progress (or last made)
    rpc,      \* the request the current withRetry issues
    stages,   \* requests the API call still has to make after this one
    wr,       \* the frame of withRetry: pc, interval, maxRetries, attempts, sleeps, err
    res,      \* the response object the request decodes into
    ret,      \* what the API call returned: done, res, err
    \* ---- the KV data path (KVData) ----
    vrs,        \* kvdata.vrs: vbucket number -> routine (NoRoutine when absent)
    engines,    \* kvdata.engines: instance uuid -> engine
    endpoints,  \* kvdata.endpoints: remote address -> endpoint
    routines,   \* every vbucket routine created so far, with what it was sent
    restartTs,  \* ts of runScatter: vbucket number -> seqno (Absent when not in ts)
    upstream,   \* the events received from mutch so far
    sbch,       \* kvdata.sbch: the commands queued for the scatter loop
    replies,    \* what was sent on the reply channel of each command issued
    posts,      \* the back-channel: what was posted to the feed
    kvpc,       \* "run" while the scatter loop runs, "break" when a Close was
                \* answered and the loop is being left, then the deferred function:
                \* "post" (PostFinKVdata is next), "close" (close(finch) is next),
                \* "done" once finch is closed
    crashed,    \* the scatter loop was left by a panic
    calls,      \* the control calls made on the data path, one per reply channel
    sibling,    \* another data path of the same feed, in its own goroutine
    mutch,      \* the upstream channel of the data path: "open" or "closed"
    \* ---- the planner ----
    planner     \* a call of a planner function: its input and its result

clientVars == <<client, api, rpc, stages, wr, res, ret>>

kvVars == <<vrs, engines, endpoints, routines, restartTs, upstream, sbch, replies,
            posts, kvpc, crashed, calls, sibling, mutch>>

\* what the actions of one component leave alone
notClient == <<kvVars, planner>>
notKV == <<clientVars, planner>>

vars == <<clientVars, kvVars, planner>>

(***************************************************************************)
(* Bounds of the model.                                                    *)
(***************************************************************************)
MaxAttempts == 4      \* attempts of one withRetry call that are explored
MaxRetriesCfg == 3    \* largest configured projector.client.maxRetries
MaxBuckets == 1       \* buckets named by the instances of InitialTopicRequest
MaxInputs == 4        \* upstream events and control commands one data path receives
MaxSibling == 1       \* events the sibling data path scatters
MaxNodes == 3         \* indexer nodes of a solution
MaxIndexes == 3       \* indexes of a solution

(***************************************************************************)
(* Machine integers.  Go's int (64-bit builds) and time.Duration (int64)   *)
(* wrap on overflow.  A value is a little-endian sequence of base-256      *)
(* limbs, in two's complement; arithmetic is done modulo 256^n.            *)
(***************************************************************************)
IntBits == 64

Limbs == IntBits \div 8

RECURSIVE NatL(_, _)
\* the n low limbs of the natural number x
NatL(x, n) == IF n = 0 THEN <<>> ELSE <<x % 256>> \o NatL(x \div 256, n - 1)

RECURSIVE FillL(_, _)
FillL(v, n) == IF n = 0 THEN <<>> ELSE <<v>> \o FillL(v, n - 1)

\* 2^k as n limbs
Pow2L(k, n) == FillL(0, k \div 8) \o <<2 ^ (k % 8)>> \o FillL(0, n - 1 - (k \div 8))

\* the int value x (|x| < 2^24) as a machine integer
I64(x) == IF x >= 0 THEN NatL(x, Limbs)
          ELSE NatL(16777216 + x, 3) \o FillL(255, Limbs - 3)

IsZeroL(a) == \A i \in 1..Len(a) : a[i] = 0
IsNegL(a) == a[Len(a)] >= 128
IsPosL(a) == ~IsNegL(a) /\ ~IsZeroL(a)
LeqZeroL(a) == IsNegL(a) \/ IsZeroL(a)

RECURSIVE ColSum(_, _, _, _)
\* sum of a[i] * b[k+1-i] for i in j..k: column k of the schoolbook product
ColSum(a, b, k, j) ==
    IF j > k THEN 0 ELSE a[j] * b[k + 1 - j] + ColSum(a, b, k, j + 1)

RECURSIVE MulFrom(_, _, _, _, _)
MulFrom(a, b, n, k, carry) ==
    IF k > n THEN <<>>
    ELSE LET s == ColSum(a, b, k, 1) + carry
         IN  <<s % 256>> \o MulFrom(a, b, n, k + 1, s \div 256)

\* a * b modulo 256^n (the low limbs are the same for signed and unsigned)
MulL(a, b, n) == MulFrom(a, b, n, 1, 0)

\* Go's a * b on int / int64
Mul64(a, b) == MulL(a, b, Limbs)

\* a non-negative machine integer seen as a wider natural number
Widen(a, m) == a \o FillL(0, m - Len(a))

RECURSIVE PowL(_, _, _)
PowL(b, e, m) == IF e = 0 THEN NatL(1, m) ELSE MulL(b, PowL(b, e - 1, m), m)

(***************************************************************************)
(* Errors.  A Go error is nil (NoErr) or carries a message (Err(text)); a  *)
(* message is a sequence of fragments, and strings.Contains(msg, s) is the *)
(* presence of fragment s.                                                 *)
(***************************************************************************)
NoErr == <<>>
Err(text) == <<text>>
Contains(text, s) == \E i \in 1..Len(text) : text[i] = s

\* errors ap.Request returns inline: the transport failed
ErrRefused == <<"dial tcp", "connection refused">>
ErrReset == <<"read tcp", "connection reset by peer">>
ErrIOTimeout == <<"dial tcp", "i/o timeout">>
TransportErrs == {ErrRefused, ErrReset, ErrIOTimeout}

\* errors the projector reports in the response envelope
ErrorResponseTimeout == <<"feed.responseTimeout">>
ErrorInconsistentFeed == <<"feed.inconsistentFeed">>
ErrorNotMyVbucket == <<"feed.notMyVbucket">>
ErrorFeederRefused == <<"feed.feeder", "dial tcp", "connection refused">>
ErrorBadBranch == <<"feed.invalidVbucketBranch", "%v">>
SemanticErrs == {ErrorResponseTimeout, ErrorInconsistentFeed, ErrorNotMyVbucket,
                 ErrorFeederRefused, ErrorBadBranch, <<>>}

\* fmt.Errorf(text) with no argument: a verb of the text is rendered as missing
Errorf(text) ==
    Err([i \in 1..Len(text) |-> IF text[i] = "%v" THEN "%!v(MISSING)" ELSE text[i]])

(***************************************************************************)
(* The KV data path: one KVData for a (bucket, kv-node), its scatter loop  *)
(* and the vbucket routines it owns.  A routine is modelled by what the    *)
(* data path sent it, in order.                                            *)
(***************************************************************************)
\* the vbucket numbers of the bucket
Vbuckets == {0, 1}
NoRoutine == 0
Absent == -1
SbchCap == 16

\* an upstream event (mc.UprEvent); flog is the failover log of a StreamRequest
UprEvent(op, vb, st, flog) ==
    [opcode |-> op, vbucket |-> vb, status |-> st, flog |-> flog,
     vbuuid |-> 0, seqno |-> 0]

DataOpcodes == {"UPR_MUTATION", "UPR_DELETION", "UPR_SNAPSHOT", "UPR_EXPIRATION"}

\* the data events the upstream delivers in the model
UpstreamData == {"UPR_MUTATION", "UPR_SNAPSHOT"}

\* a failover log is nil (<<>>) or a list of (vbuuid, seqno)
FailoverLogs == {<<>>, <<[vbuuid |-> 11, seqno |-> 3]>>}

UpstreamEvents ==
    {UprEvent("UPR_STREAMREQ", v, "SUCCESS", fl) : v \in Vbuckets, fl \in FailoverLogs}
    \cup {UprEvent("UPR_STREAMREQ", v, st, <<>>) :
             v \in Vbuckets, st \in {"ROLLBACK", "NOT_MY_VBUCKET"}}
    \cup {UprEvent("UPR_STREAMEND", v, st, <<>>) :
             v \in Vbuckets, st \in {"SUCCESS", "NOT_MY_VBUCKET"}}
    \cup {UprEvent(op, v, "SUCCESS", <<>>) : op \in UpstreamData, v \in Vbuckets}

\* faulty variant: an entry the map already has is not overridden
MergeKeep(m, n) ==
    [k \in (DOMAIN m) \cup (DOMAIN n) |-> IF k \in DOMAIN m THEN m[k] ELSE n[k]]

\* maps as functions: m overridden / extended by n
Merge(m, n) ==
    [k \in (DOMAIN m) \cup (DOMAIN n) |-> IF k \in DOMAIN n THEN n[k] ELSE m[k]]
\* faulty variant: nothing is deleted from the map
WithoutNone(m, keys) == m

\* delete(m, k) for every k of keys
Without(m, keys) == [k \in (DOMAIN m) \ keys |-> m[k]]
EmptyMap == <<>>

\* ts.SeqnoFor(vbno): the seqno of the vbucket in ts, 0 when ts has no entry for it
SeqnoFor(ts, vbno) == IF ts[vbno] = Absent THEN 0 ELSE ts[vbno]

\* FailoverLog.Latest(): fails on a nil log
LatestFails(flog) == flog = <<>>
Latest(flog) == flog[Len(flog)]

\* a routine that is created, and what is sent to a routine
NewVbucketRoutine(vbno, vbuuid, seqno) ==
    [vbno |-> vbno, vbuuid |-> vbuuid, seqno |-> seqno, log |-> <<>>]
VrAddEngines(e, p) == [op |-> "AddEngines", engines |-> e, endpoints |-> p]
VrDeleteEngines(keys) == [op |-> "DeleteEngines", keys |-> keys]
VrEvent(m) == [op |-> "Event", event |-> m]
VrGetStatistics == [op |-> "GetStatistics"]

\* faulty variant: every message is sent twice
SendTwice(rs, rid, msg) == [rs EXCEPT ![rid].log = Append(Append(@, msg), msg)]

\* vr.Event(m), vr.AddEngines(...): a message for the routine
Send(rs, rid, msg) == [rs EXCEPT ![rid].log = Append(@, msg)]

\* the routines the map holds
Mapped(vm) == {vm[v] : v \in {w \in Vbuckets : vm[w] # NoRoutine}}

\* msg sent to every routine of the map
Broadcast(rs, vm, msg) ==
    [r \in 1..Len(rs) |-> IF r \in Mapped(vm) THEN [rs[r] EXCEPT !.log = Append(@, msg)]
                          ELSE rs[r]]

PostStreamRequest(m) == [post |-> "StreamRequest", event |-> m]
\* faulty variant: a StreamEnd is posted as a StreamRequest
PostStreamEndAsRequest(m) == [post |-> "StreamRequest", event |-> m]

PostStreamEnd(m) == [post |-> "StreamEnd", event |-> m]
PostFinKVdata == [post |-> "FinKVdata"]

\* faulty variant: the duplicate test of scatterMutation left out
IsDuplicateNever(vm, vbno) == FALSE

\* faulty variant: a ROLLBACK is not told from a SUCCESS
RefusedRequestNotRollback(m) == m.status # "SUCCESS" /\ m.status # "ROLLBACK"

\* the first two branches of the StreamRequest case: ROLLBACK or another failure
RefusedRequest(m) == m.status = "ROLLBACK" \/ m.status # "SUCCESS"

\* faulty variant: the event is sent before the engines
SeedEventFirst(e, p, m) == <<VrEvent(m), VrAddEngines(e, p)>>

\* what a new routine is sent: vr.AddEngines(...), then vr.Event(m)
Seed(e, p, m) == <<VrAddEngines(e, p), VrEvent(m)>>

\* faulty variant: the status of the StreamEnd is not looked at
EndsStreamAnyStatus(vm, m) == vm[m.vbucket] # NoRoutine

\* the last branch of the StreamEnd case: the vbucket has a routine and the
\* status is SUCCESS
EndsStream(vm, m) == vm[m.vbucket] # NoRoutine /\ m.status = "SUCCESS"

\* _, ok := kvdata.vrs[vbno]
IsDuplicate(vm, vbno) == vm[vbno] # NoRoutine

\* faulty variant: a data event of a vbucket without routine goes to every routine
UnknownVbucketToAll(rs, vm, m) == Broadcast(rs, vm, VrEvent(m))

\* the else branch of the data case: c.Errorf("unknown vbucket") and nothing else
UnknownVbucket(rs, vm, m) == rs

\* scatterMutation(m, ts): the data path after the event, and whether it panicked
ScatterMutation(m, vm, rs, ps, e, p, ts) ==
    LET vbno == m.vbucket
        same == [vrs |-> vm, routines |-> rs, posts |-> ps, panic |-> FALSE,
                 err |-> NoErr]
    IN  CASE m.opcode = "UPR_STREAMREQ" ->
               IF RefusedRequest(m) \/ IsDuplicate(vm, vbno)
               THEN [same EXCEPT !.posts = Append(ps, PostStreamRequest(m))]
               ELSE IF LatestFails(m.flog)
               THEN [same EXCEPT !.panic = TRUE, !.err = Err(<<"FailoverLog.Latest">>)]
               ELSE LET m1 == [m EXCEPT !.vbuuid = Latest(m.flog).vbuuid,
                                        !.seqno = SeqnoFor(ts, vbno)]
                        vr == [NewVbucketRoutine(vbno, m1.vbuuid, m1.seqno)
                                  EXCEPT !.log = Seed(e, p, m1)]
                    IN  [vrs |-> [vm EXCEPT ![vbno] = Len(rs) + 1],
                         routines |-> Append(rs, vr),
                         posts |-> Append(ps, PostStreamRequest(m1)),
                         panic |-> FALSE, err |-> NoErr]
          [] m.opcode = "UPR_STREAMEND" ->
               IF ~EndsStream(vm, m)
               THEN [same EXCEPT !.posts = Append(ps, PostStreamEnd(m))]
               ELSE [vrs |-> [vm EXCEPT ![vbno] = NoRoutine],
                     routines |-> Send(rs, vm[vbno], VrEvent(m)),
                     posts |-> Append(ps, PostStreamEnd(m)),
                     panic |-> FALSE, err |-> NoErr]
          [] m.opcode \in DataOpcodes ->
               IF vm[vbno] # NoRoutine
               THEN [same EXCEPT !.routines = Send(rs, vm[vbno], VrEvent(m))]
               ELSE [same EXCEPT !.routines = UnknownVbucket(rs, vm, m)]
          [] OTHER -> same

\* faulty variant: no routine is told of the shutdown
PublishNothing(rs, vm) == rs

\* publishStreamEnd: a StreamEnd(SUCCESS) for every routine of the map
PublishStreamEnd(rs, vm) ==
    Broadcast(rs, vm, VrEvent(UprEvent("UPR_STREAMEND", 0, "SUCCESS", <<>>)))

\* the scatter loop is left (break loop, or a panic) and the deferred function
\* of runScatter starts: recover(), then publishStreamEnd()
Shutdown(vm, rs, ps, panicked) ==
    /\ routines' = PublishStreamEnd(rs, vm)
    /\ posts' = ps
    /\ kvpc' = "post"
    /\ crashed' = panicked

\* faulty variant: the deferred function does not call recover()
RecoversNot == FALSE

\* if r := recover(); r != nil: the panic stops in the deferred function
Recovers == TRUE

\* a data path of the same feed for another kv-node: its routine map, the number
\* of events it has scattered, and whether it scattered one after a crash here
SiblingInit == [running |-> TRUE, vrs |-> {0}, events |-> 0, afterCrash |-> FALSE]

\* the planner when a specification leaves it out
PlannerIdle == planner = [pc |-> "idle"]

\* the state in which the data path does not exist (the client's specification)
KVIdle ==
    /\ vrs = [v \in Vbuckets |-> NoRoutine]
    /\ engines = EmptyMap
    /\ endpoints = EmptyMap
    /\ routines = <<>>
    /\ restartTs = [v \in Vbuckets |-> Absent]
    /\ upstream = <<>>
    /\ sbch = <<>>
    /\ replies = <<>>
    /\ posts = <<>>
    /\ kvpc = "done"
    /\ crashed = FALSE
    /\ calls = <<>>
    /\ sibling = SiblingInit
    /\ mutch = "open"


(***************************************************************************)
(* The admin client.                                                       *)
(***************************************************************************)
\* configurations NewClient may read; 2^62 makes the int arithmetic wrap
RetryIntervals == {I64(0), I64(1), I64(100), Pow2L(62, Limbs), I64(-1)}
ExpBackoffs == {I64(0), I64(1), I64(2), I64(-1)}
MaxRetriesSet == 0..MaxRetriesCfg

\* NewClient: the fields withRetry reads
NewClient(retryInterval, maxRetries, expBackoff) ==
    [retryInterval |-> retryInterval, maxRetries |-> maxRetries,
     expBackoff |-> expBackoff]

TopicAPIs == {"InitialTopicRequest", "MutationTopicRequest", "RestartVbuckets",
              "AddBuckets"}
ErrorAPIs == {"ShutdownVbuckets", "DelBuckets", "AddInstances", "DelInstances",
              "RepairEndpoints", "ShutdownTopic"}
APIs == TopicAPIs \cup ErrorAPIs
           \cup {"GetVbmap", "GetFailoverLogs", "InitialRestartTimestamp"}

RECURSIVE RestartTsStages(_)
\* InitialRestartTimestamp, once per bucket: GetVbmap, then GetFailoverLogs
RestartTsStages(nb) ==
    IF nb = 0 THEN <<>>
    ELSE <<"VbmapRequest", "FailoverLogRequest">> \o RestartTsStages(nb - 1)

\* the requests an API call issues, in order, each through withRetry
Requests(a, nb) ==
    CASE a = "GetVbmap" -> <<"VbmapRequest">>
      [] a = "GetFailoverLogs" -> <<"FailoverLogRequest">>
      [] a = "InitialRestartTimestamp" -> RestartTsStages(1)
      [] a = "InitialTopicRequest" -> RestartTsStages(nb) \o <<"MutationTopicRequest">>
      [] a = "MutationTopicRequest" -> <<"MutationTopicRequest">>
      [] a = "RestartVbuckets" -> <<"RestartVbucketsRequest">>
      [] a = "AddBuckets" -> <<"AddBucketsRequest">>
      [] OTHER -> <<a>>

\* the type of the response object a request decodes into
ResponseKind(r) ==
    CASE r = "VbmapRequest" -> "VbmapResponse"
      [] r = "FailoverLogRequest" -> "FailoverLogResponse"
      [] r \in {"MutationTopicRequest", "RestartVbucketsRequest",
                "AddBucketsRequest"} -> "TopicResponse"
      [] OTHER -> "Error"

NoRes == <<>>

\* a fresh response object (res := &protobuf.TopicResponse{} ...)
EmptyResponse(kind) ==
    [kind |-> kind, active |-> {}, rollback |-> {}, err |-> NoErr]

\* what a projector may answer to a request
Answers(kind) ==
    IF kind = "TopicResponse"
    THEN {[kind |-> kind, active |-> {0, 1}, rollback |-> {}, err |-> NoErr]}
         \cup {[kind |-> kind, active |-> {0}, rollback |-> {1}, err |-> Err(t)] :
                  t \in SemanticErrs}
    ELSE {[kind |-> kind, active |-> {}, rollback |-> {}, err |-> NoErr]}
         \cup {[kind |-> kind, active |-> {}, rollback |-> {}, err |-> Err(t)] :
                  t \in SemanticErrs}

\* the outcomes of ap.Request(req, res): a transport error, or an answer
Outcomes(kind) ==
    {[transport |-> Err(t), answer |-> NoRes] : t \in TransportErrs}
    \cup {[transport |-> NoErr, answer |-> <<r>>] : r \in Answers(kind)}

\* res.GetErr() / res.GetError() of the closures handed to withRetry
EnvelopeErr(r) ==
    IF r.kind = "Error"
    THEN IF r.err = NoErr \/ r.err[1] = <<>> THEN NoErr ELSE Errorf(r.err[1])
    ELSE IF r.err = NoErr THEN NoErr ELSE Errorf(r.err[1])

\* the closure fn of every API call: its error for outcome o
FnErr(o) == IF o.transport # NoErr THEN o.transport ELSE EnvelopeErr(o.answer[1])

\* faulty variants of the retry test, used to show the claims depend on it
RetriableOrReset(e) ==
    Contains(e[1], "connection refused") \/ Contains(e[1], "connection reset by peer")
RetriableOrTimeout(e) ==
    Contains(e[1], "connection refused") \/ Contains(e[1], "i/o timeout")
RetriableAny(e) == TRUE

\* strings.Contains(err.Error(), "connection refused")
Retriable(e) == Contains(e[1], "connection refused")

\* faulty variant: interval < 0
NoRetryNegative(interval) == IsNegL(interval)

\* interval <= 0: no retry
NoRetry(interval) == LeqZeroL(interval)

\* maxRetries--, applicable only if greater than zero
Decrement(maxRetries) == IF maxRetries > 0 THEN maxRetries - 1 ELSE maxRetries

\* maxRetry expired
Expired(maxRetries) == maxRetries > 0 /\ Decrement(maxRetries) = 0

Millisecond == 1000000

\* time.Duration(interval) * time.Millisecond
SleepDuration(interval) == Mul64(interval, NatL(Millisecond, Limbs))

\* if client.expBackoff > 0 { interval *= client.expBackoff }
Backoff(interval, expBackoff) ==
    IF IsPosL(expBackoff) THEN Mul64(interval, expBackoff) ELSE interval

\* the frame of withRetry on entry
EnterWithRetry(c) ==
    [pc |-> "run", interval |-> c.retryInterval, maxRetries |-> c.maxRetries,
     attempts |-> <<>>, sleeps |-> <<>>, err |-> NoErr]

\* one iteration of the loop of withRetry, fn() having had outcome o
WithRetryIter(w, c, o) ==
    LET e == FnErr(o)
        src == IF o.transport # NoErr THEN "transport"
               ELSE IF e # NoErr THEN "envelope" ELSE "ok"
        w1 == [w EXCEPT !.attempts = Append(@, [src |-> src, err |-> e]),
                        !.err = e]
    IN  IF e = NoErr THEN [w1 EXCEPT !.pc = "ret"]
        ELSE IF ~Retriable(e) THEN [w1 EXCEPT !.pc = "ret"]
        ELSE IF NoRetry(w.interval) THEN [w1 EXCEPT !.pc = "ret"]
        ELSE IF Expired(w.maxRetries)
             THEN [w1 EXCEPT !.pc = "ret", !.maxRetries = Decrement(@)]
        ELSE [w1 EXCEPT !.maxRetries = Decrement(@),
                        !.sleeps = Append(@, SleepDuration(w.interval)),
                        !.interval = Backoff(@, c.expBackoff)]

\* what the API call hands back once its last withRetry returned
APIReturn(a, r, e) ==
    IF e # NoErr THEN [done |-> TRUE, res |-> NoRes, err |-> e]
    ELSE IF a \in ErrorAPIs THEN [done |-> TRUE, res |-> NoRes, err |-> NoErr]
    ELSE [done |-> TRUE, res |-> <<r>>, err |-> NoErr]

NotReturned == [done |-> FALSE, res |-> NoRes, err |-> NoErr]

\* no client call is made: the state of the client in the data path's specification
ClientIdle ==
    /\ client = NewClient(I64(0), 0, I64(0))
    /\ api = "none"
    /\ rpc = "none"
    /\ stages = <<>>
    /\ wr = [EnterWithRetry(client) EXCEPT !.pc = "off"]
    /\ res = NoRes
    /\ ret = NotReturned

ClientInit ==
    /\ KVIdle
    /\ PlannerIdle
    /\ client \in {NewClient(ri, mr, eb) :
                      ri \in RetryIntervals, mr \in MaxRetriesSet, eb \in ExpBackoffs}
    /\ api = "none"
    /\ rpc = "none"
    /\ stages = <<>>
    /\ wr = [EnterWithRetry(client) EXCEPT !.pc = "off"]
    /\ res = NoRes
    /\ ret = NotReturned

\* an API of the client is called (no call is in progress)
Call(a, nb) ==
    /\ api = "none" \/ ret.done
    /\ api' = a
    /\ rpc' = Head(Requests(a, nb))
    /\ stages' = Tail(Requests(a, nb))
    /\ res' = <<EmptyResponse(ResponseKind(Head(Requests(a, nb))))>>
    /\ wr' = EnterWithRetry(client)
    /\ ret' = NotReturned
    /\ UNCHANGED client
    /\ UNCHANGED notClient

\* withRetry calls fn() once more and decides whether to go on
Attempt(o) ==
    /\ wr.pc = "run"
    /\ Len(wr.attempts) < MaxAttempts
    /\ wr' = WithRetryIter(wr, client, o)
    /\ res' = IF o.transport = NoErr THEN o.answer ELSE res
    /\ UNCHANGED <<client, api, rpc, stages, ret>>
    /\ UNCHANGED notClient

\* withRetry returned: the API call returns or goes on to its next request
Return ==
    /\ wr.pc = "ret"
    /\ ~ret.done
    /\ IF wr.err = NoErr /\ stages # <<>>
       THEN /\ rpc' = Head(stages)
            /\ stages' = Tail(stages)
            /\ res' = <<EmptyResponse(ResponseKind(Head(stages)))>>
            /\ wr' = EnterWithRetry(client)
            /\ UNCHANGED ret
       ELSE /\ ret' = APIReturn(api, res[1], wr.err)
            /\ UNCHANGED <<rpc, stages, res, wr>>
    /\ UNCHANGED <<client, api>>
    /\ UNCHANGED notClient

ClientNext ==
    \/ \E a \in APIs, nb \in 0..MaxBuckets : Call(a, nb)
    \/ \E o \in Outcomes(ResponseKind(rpc)) : Attempt(o)
    \/ Return

SpecClient == ClientInit /\ [][ClientNext]_vars

(***************************************************************************)
(* The scatter loop of the KV data path.                                   *)
(***************************************************************************)
\* the request timestamps a data path is started with
RequestTs == {[v \in Vbuckets |-> IF v = 0 THEN 5 ELSE Absent]}

\* NewKVData: the maps are copied, the scatter loop is started
KVStart ==
    /\ vrs = [v \in Vbuckets |-> NoRoutine]
    /\ engines = [k \in {11} |-> "engine1"]
    /\ endpoints = [k \in {"raddr1"} |-> "endpoint1"]
    /\ routines = <<>>
    /\ restartTs \in RequestTs
    /\ upstream = <<>>
    /\ sbch = <<>>
    /\ replies = <<>>
    /\ posts = <<>>
    /\ kvpc = "run"
    /\ crashed = FALSE
    /\ calls = <<>>
    /\ sibling = SiblingInit
    /\ mutch = "open"

KVInit ==
    /\ ClientIdle
    /\ PlannerIdle
    /\ KVStart

\* the select of runScatter receives event m from mutch
Scatter(m) ==
    /\ kvpc = "run"
    /\ mutch = "open"
    /\ Len(upstream) + Len(replies) < MaxInputs
    /\ upstream' = Append(upstream, m)
    /\ LET r == ScatterMutation(m, vrs, routines, posts, engines, endpoints, restartTs)
       IN  /\ vrs' = r.vrs
           /\ IF r.panic \/ Mapped(r.vrs) = {}
              THEN Shutdown(r.vrs, r.routines, r.posts, r.panic)
              ELSE /\ routines' = r.routines
                   /\ posts' = r.posts
                   /\ UNCHANGED <<kvpc, crashed>>
    /\ UNCHANGED <<engines, endpoints, restartTs, sbch, replies, calls, sibling>>
    /\ UNCHANGED <<mutch, notKV>>

\* the feed closes the upstream channel of the running data path (a close
\* after the loop was left is seen by nobody)
CloseUpstream ==
    /\ kvpc = "run"
    /\ mutch = "open"
    /\ mutch' = "closed"
    /\ UNCHANGED <<vrs, engines, endpoints, routines, restartTs, upstream, sbch,
                   replies, posts, kvpc, crashed, calls, sibling>>
    /\ UNCHANGED notKV

\* faulty variant: the loop goes on when it finds mutch closed
UpstreamClosedIgnored ==
    /\ kvpc = "run"
    /\ mutch = "closed"
    /\ UNCHANGED vars

\* the select of runScatter finds mutch closed
UpstreamClosed ==
    /\ kvpc = "run"
    /\ mutch = "closed"
    /\ Shutdown(vrs, routines, posts, FALSE)
    /\ UNCHANGED <<vrs, engines, endpoints, restartTs, upstream, sbch, replies,
                   calls, sibling>>
    /\ UNCHANGED <<mutch, notKV>>

\* break loop after the reply to Close: the deferred function of runScatter
\* starts, recover() finds no panic and publishStreamEnd() is called
BreakLoop ==
    /\ kvpc = "break"
    /\ Shutdown(vrs, routines, posts, FALSE)
    /\ UNCHANGED <<vrs, engines, endpoints, restartTs, upstream, sbch, replies,
                   calls, sibling>>
    /\ UNCHANGED <<mutch, notKV>>

\* the deferred function of runScatter: kvdata.feed.PostFinKVdata(...)
PostFin ==
    /\ kvpc = "post"
    /\ posts' = Append(posts, PostFinKVdata)
    /\ kvpc' = "close"
    /\ UNCHANGED <<vrs, engines, endpoints, routines, restartTs, upstream, sbch,
                   replies, crashed, calls, sibling>>
    /\ UNCHANGED <<mutch, notKV>>

\* the deferred function of runScatter: close(kvdata.finch); a panic that was
\* not recovered goes on from here and ends the process, siblings included
CloseFinch ==
    /\ kvpc = "close"
    /\ kvpc' = "done"
    /\ sibling' = [sibling EXCEPT !.running = @ /\ (crashed => Recovers)]
    /\ UNCHANGED <<vrs, engines, endpoints, routines, restartTs, upstream, sbch,
                   replies, posts, crashed, calls>>
    /\ UNCHANGED <<mutch, notKV>>

\* the scatter loop of the sibling data path handles one of its events
SiblingScatter ==
    /\ sibling.running
    /\ sibling.events < MaxSibling
    /\ sibling' = [sibling EXCEPT !.events = @ + 1, !.afterCrash = crashed]
    /\ UNCHANGED <<vrs, engines, endpoints, routines, restartTs, upstream, sbch,
                   replies, posts, kvpc, crashed, calls>>
    /\ UNCHANGED <<mutch, notKV>>

\* the commands a caller may issue
Commands ==
    {[cmd |-> "kvCmdAddEngines", engines |-> a[1], endpoints |-> a[2], keys |-> {},
      ts |-> <<>>, respch |-> TRUE] :
         a \in {<<EmptyMap, EmptyMap>>,
                <<[k \in {11, 12} |-> "engine2"], [k \in {"raddr2"} |-> "endpoint2"]>>}}
    \cup {[cmd |-> "kvCmdDelEngines", engines |-> EmptyMap, endpoints |-> EmptyMap,
           keys |-> ks, ts |-> <<>>, respch |-> TRUE] : ks \in {{11, 13}}}
    \cup {[cmd |-> "kvCmdTs", engines |-> EmptyMap, endpoints |-> EmptyMap,
           keys |-> {}, ts |-> [v \in Vbuckets |-> 7], respch |-> FALSE]}
    \cup {[cmd |-> c, engines |-> EmptyMap, endpoints |-> EmptyMap,
           keys |-> {}, ts |-> <<>>, respch |-> TRUE] :
             c \in {"kvCmdGetStats", "kvCmdClose"}}

\* the error FailsafeOp returns when finch is closed
ErrorClosed == <<"genServer.closed">>

\* what the caller does with (resp, err) of FailsafeOp: GetStatistics returns
\* resp[0], the other four return err
CallReturn(cmd, resp, err) ==
    IF cmd = "kvCmdGetStats"
    THEN IF resp = <<>>
         THEN [pc |-> "panic", val |-> <<>>, err |-> NoErr]
         ELSE [pc |-> "ret", val |-> resp, err |-> NoErr]
    ELSE [pc |-> "ret", val |-> <<>>, err |-> err]

Returned(c, r) == [cmd |-> c, pc |-> r.pc, val |-> r.val, err |-> r.err]

\* a caller makes its reply channel and FailsafeOp queues the command on sbch
Issue(c) ==
    /\ Len(upstream) + Len(replies) < MaxInputs
    /\ Len(sbch) < SbchCap
    /\ sbch' = Append(sbch, [c EXCEPT !.respch = Len(replies) + 1])
    /\ replies' = Append(replies, <<>>)
    /\ calls' = Append(calls, [cmd |-> c.cmd, pc |-> "wait", val |-> <<>>,
                               err |-> NoErr])
    /\ UNCHANGED <<vrs, engines, endpoints, routines, restartTs, upstream, posts,
                   kvpc, crashed, sibling>>
    /\ UNCHANGED <<mutch, notKV>>

\* a caller makes its reply channel and FailsafeOp finds finch closed before the
\* command is queued
IssueClosed(c) ==
    /\ kvpc = "done"
    /\ Len(upstream) + Len(replies) < MaxInputs
    /\ replies' = Append(replies, <<>>)
    /\ calls' = Append(calls, Returned(c.cmd, CallReturn(c.cmd, <<>>, Err(ErrorClosed))))
    /\ UNCHANGED <<vrs, engines, endpoints, routines, restartTs, upstream, sbch,
                   posts, kvpc, crashed, sibling>>
    /\ UNCHANGED <<mutch, notKV>>

\* FailsafeOp receives the reply of call i
Receive(i) ==
    /\ i \in 1..Len(calls)
    /\ calls[i].pc = "wait"
    /\ replies[i] # <<>>
    /\ calls' = [calls EXCEPT ![i] =
                    Returned(@.cmd, CallReturn(@.cmd, <<Head(replies[i])>>, NoErr))]
    /\ UNCHANGED <<vrs, engines, endpoints, routines, restartTs, upstream, sbch,
                   replies, posts, kvpc, crashed, sibling>>
    /\ UNCHANGED <<mutch, notKV>>

\* FailsafeOp, waiting for the reply of call i, finds finch closed
Cancel(i) ==
    /\ i \in 1..Len(calls)
    /\ calls[i].pc = "wait"
    /\ kvpc = "done"
    /\ calls' = [calls EXCEPT ![i] =
                    Returned(@.cmd, CallReturn(@.cmd, <<>>, Err(ErrorClosed)))]
    /\ UNCHANGED <<vrs, engines, endpoints, routines, restartTs, upstream, sbch,
                   replies, posts, kvpc, crashed, sibling>>
    /\ UNCHANGED <<mutch, notKV>>

Reply(rp, c, v) == [rp EXCEPT ![c.respch] = Append(@, v)]

\* ts.Union(other): entry-wise replace
TsUnion(ts, other) == [v \in Vbuckets |-> IF other[v] # Absent THEN other[v] ELSE ts[v]]

\* the select of runScatter receives a command from sbch
Command ==
    /\ kvpc = "run"
    /\ sbch # <<>>
    /\ sbch' = Tail(sbch)
    /\ LET c == Head(sbch)
       IN  CASE c.cmd = "kvCmdAddEngines" ->
                  /\ engines' = Merge(engines, c.engines)
                  /\ endpoints' = Merge(endpoints, c.endpoints)
                  /\ routines' = Broadcast(routines, vrs,
                                           VrAddEngines(engines', endpoints'))
                  /\ replies' = Reply(replies, c, "nil")
                  /\ UNCHANGED <<vrs, restartTs, posts, kvpc, crashed>>
             [] c.cmd = "kvCmdDelEngines" ->
                  /\ routines' = Broadcast(routines, vrs, VrDeleteEngines(c.keys))
                  /\ engines' = Without(engines, c.keys)
                  /\ replies' = Reply(replies, c, "nil")
                  /\ UNCHANGED <<vrs, endpoints, restartTs, posts, kvpc, crashed>>
             [] c.cmd = "kvCmdTs" ->
                  \* the command has two elements: msg[2] is out of range and panics
                  /\ restartTs' = TsUnion(restartTs, c.ts)
                  /\ Shutdown(vrs, routines, posts, TRUE)
                  /\ UNCHANGED <<vrs, engines, endpoints, replies>>
             [] c.cmd = "kvCmdGetStats" ->
                  /\ routines' = Broadcast(routines, vrs, VrGetStatistics)
                  /\ replies' = Reply(replies, c, "stats")
                  /\ UNCHANGED <<vrs, engines, endpoints, restartTs, posts, kvpc,
                                 crashed>>
             [] c.cmd = "kvCmdClose" ->
                  \* the reply is sent and the loop is left; the deferred function
                  \* starts in a later step (BreakLoop), the caller may run first
                  /\ replies' = Reply(replies, c, "nil")
                  /\ kvpc' = "break"
                  /\ UNCHANGED <<vrs, engines, endpoints, routines, restartTs, posts,
                                 crashed>>
    /\ UNCHANGED <<upstream, calls, sibling>>
    /\ UNCHANGED <<mutch, notKV>>

KVNext ==
    \/ \E m \in UpstreamEvents : Scatter(m)
    \/ CloseUpstream
    \/ UpstreamClosed
    \/ BreakLoop
    \/ PostFin
    \/ CloseFinch
    \/ \E c \in Commands : Issue(c)
    \/ \E c \in Commands : IssueClosed(c)
    \/ Command
    \/ \E i \in 1..MaxInputs : Receive(i)
    \/ \E i \in 1..MaxInputs : Cancel(i)
    \/ SiblingScatter

SpecKV == KVInit /\ [][KVNext]_vars

\* every goroutine that can take a step takes one: the scatter loop and its
\* deferred function, and the select of every waiting caller
KVFairness ==
    /\ WF_vars(UpstreamClosed)
    /\ WF_vars(Command)
    /\ WF_vars(BreakLoop)
    /\ WF_vars(PostFin)
    /\ WF_vars(CloseFinch)
    /\ \A i \in 1..MaxInputs : WF_vars(Receive(i) \/ Cancel(i))

SpecKVFair == SpecKV /\ KVFairness

\* the scatter loop with its inputs only: the upstream events, the close of the
\* upstream and the commands that callers queue
ScatterNext ==
    \/ \E m \in UpstreamEvents : Scatter(m)
    \/ CloseUpstream
    \/ UpstreamClosed
    \/ BreakLoop
    \/ PostFin
    \/ CloseFinch
    \/ \E c \in Commands : Issue(c)
    \/ Command

\* the goroutine of runScatter takes a step when it can: the select does not
\* pass over a closed mutch forever, and the deferred function runs to its end
ScatterFairness ==
    /\ WF_vars(UpstreamClosed)
    /\ WF_vars(BreakLoop)
    /\ WF_vars(PostFin)
    /\ WF_vars(CloseFinch)

SpecScatterFair == KVInit /\ [][ScatterNext]_vars /\ ScatterFairness

(***************************************************************************)
(* The planner: transfer tokens of a rebalance.                            *)
(***************************************************************************)
\* an indexer node: its node id and its node UUID
IndexerNode(n) == [NodeId |-> <<"node", n>>, NodeUUID |-> <<"uuid", n>>]

\* an index with its instance id, its definition and the node it started on
IndexUsage(i, n) ==
    [InstId |-> i, Definition |-> <<"defn", i>>, initialNode |-> IndexerNode(n)]

RECURSIVE IndexesOn(_, _, _, _)
\* indexer.Indexes: the indexes i..k whose final node is n, in order
IndexesOn(n, i, initial, final) ==
    IF i > Len(final) THEN <<>>
    ELSE (IF final[i] = n THEN <<IndexUsage(i, initial[i])>> ELSE <<>>)
            \o IndexesOn(n, i + 1, initial, final)

\* a solution: the placement of the indexes (initial[i] is the node index i
\* started on, final[i] the node that holds it now)
Solution(nodes, initial, final) ==
    [Placement |-> [n \in 1..nodes |->
                      [NodeId |-> IndexerNode(n).NodeId,
                       NodeUUID |-> IndexerNode(n).NodeUUID,
                       Indexes |-> IndexesOn(n, 1, initial, final)]]]

\* the solutions a rebalance may end with
Solutions ==
    UNION {{Solution(MaxNodes, initial, final) :
                initial \in [1..k -> 1..MaxNodes], final \in [1..k -> 1..MaxNodes]} :
           k \in 0..MaxIndexes}

\* common.NewUUID(), called for the n-th time: what it can return.  Either an
\* id no earlier call returned, without error, or the error of the random source
\* with the nil UUID (id 0 stands for it)
NewUUID(n) == {[id |-> 6 + n, err |-> NoErr], [id |-> 0, err |-> Err(<<"rand">>)]}

\* what the calls of common.NewUUID return during one genTransferToken, one for
\* every index at most
TokenDraws == {d \in [1..MaxIndexes -> UNION {NewUUID(n) : n \in 1..MaxIndexes}] :
                 \A n \in 1..MaxIndexes : d[n] \in NewUUID(n)}

\* ustr, _ := common.NewUUID(); ttid := fmt.Sprintf("TransferToken%s", ustr.Str()):
\* the error is dropped and the key is made of whatever was returned
TokenId(ustr) == <<"TransferToken", ustr.id>>

\* index.initialNode.NodeId != indexer.NodeId
Moved(index, indexer) == index.initialNode.NodeId # indexer.NodeId

\* the token of genTransferToken for an index on an indexer
TransferToken(index, indexer, masterId, topologyChange) ==
    [MasterId |-> masterId,
     SourceId |-> index.initialNode.NodeUUID,
     DestId |-> indexer.NodeUUID,
     RebalId |-> topologyChange.ID,
     State |-> "TransferTokenCreated",
     InstId |-> index.InstId,
     IndexDefn |-> index.Definition]

RECURSIVE TokensOfIndexer(_, _, _, _, _)
\* the inner loop of genTransferToken; made says the tokens so far and how many
\* calls of common.NewUUID were made, uuids what the next calls return
TokensOfIndexer(indexes, indexer, masterId, topologyChange, made) ==
    IF indexes = <<>> THEN made
    ELSE LET index == Head(indexes)
             ustr == Head(made.uuids)
             ttid == TokenId(ustr)
             token == TransferToken(index, indexer, masterId, topologyChange)
         IN  TokensOfIndexer(Tail(indexes), indexer, masterId, topologyChange,
                             IF Moved(index, indexer)
                             THEN [tokens |-> Merge(made.tokens, [k \in {ttid} |-> token]),
                                   uuids |-> Tail(made.uuids)]
                             ELSE made)

RECURSIVE TokensOfPlacement(_, _, _, _)
\* the outer loop of genTransferToken
TokensOfPlacement(placement, masterId, topologyChange, made) ==
    IF placement = <<>> THEN made
    ELSE TokensOfPlacement(Tail(placement), masterId, topologyChange,
                           TokensOfIndexer(Head(placement).Indexes, Head(placement),
                                           masterId, topologyChange, made))

\* genTransferToken(solution, masterId, topologyChange), with what the calls of
\* common.NewUUID return
genTransferToken(solution, masterId, topologyChange, uuids) ==
    TokensOfPlacement(solution.Placement, masterId, topologyChange,
                      [tokens |-> EmptyMap, uuids |-> uuids]).tokens

TokensInit ==
    /\ ClientIdle
    /\ KVIdle
    /\ planner \in {[pc |-> "call", solution |-> sol, masterId |-> "master",
                      topologyChange |-> [ID |-> id], uuids |-> uuids,
                      tokens |-> EmptyMap] :
                        sol \in Solutions, id \in {"rebal1", "rebal2"},
                        uuids \in TokenDraws}

\* genTransferToken(p.Result, masterId, topologyChange)
GenTransferToken ==
    /\ planner.pc = "call"
    /\ planner' = [planner EXCEPT
                      !.pc = "done",
                      !.tokens = genTransferToken(planner.solution, planner.masterId,
                                                  planner.topologyChange,
                                                  planner.uuids)]
    /\ UNCHANGED <<clientVars, kvVars>>

SpecTokens == TokensInit /\ [][GenTransferToken]_vars

(***************************************************************************)
(* The planner: rebalance.                                                 *)
(***************************************************************************)
\* a nil *IndexerNode
NoNode == [NodeId |-> <<>>, NodeUUID |-> <<>>]

\* a nil map of tokens, and the map make() returns with its entries
NilTokens == [nil |-> TRUE, m |-> EmptyMap]
TokenMap(m) == [nil |-> FALSE, m |-> m]

\* an index of a layout: pinned when hosts is not empty
LayoutIndex(i, n, hosts) ==
    [InstId |-> i, Definition |-> [nil |-> FALSE, Name |-> <<"ix", i>>, Bucket |-> "b1"],
     Hosts |-> hosts, initialNode |-> IndexerNode(n)]

RECURSIVE LayoutIndexes(_, _, _, _)
\* the indexes i..k of a layout that are on node n (place[i] is the node of
\* index i, pinned the indexes with a Hosts list)
LayoutIndexes(n, i, place, pinned) ==
    IF i > Len(place) THEN <<>>
    ELSE (IF place[i] = n
          THEN <<LayoutIndex(i, n, IF i \in pinned THEN <<IndexerNode(n).NodeId>>
                                                   ELSE <<>>)>>
          ELSE <<>>) \o LayoutIndexes(n, i + 1, place, pinned)

\* the plan RetrievePlanFromCluster reads from a cluster of MaxNodes indexers
Layout(place, pinned) ==
    [nil |-> FALSE,
     Placement |-> [n \in 1..MaxNodes |->
                      [NodeId |-> IndexerNode(n).NodeId,
                       NodeUUID |-> IndexerNode(n).NodeUUID,
                       delete |-> FALSE,
                       Indexes |-> LayoutIndexes(n, 1, place, pinned)]]]

\* the layouts of a cluster; the first index may be pinned to its node
Layouts ==
    UNION {{Layout(place, pinned) : place \in [1..k -> 1..MaxNodes],
                                    pinned \in {{}, {1} \cap (1..k)}} :
           k \in 0..MaxIndexes}

RECURSIVE AllIndexes(_)
\* the indexes of a placement, indexer by indexer
AllIndexes(placement) ==
    IF placement = <<>> THEN <<>>
    ELSE Head(placement).Indexes \o AllIndexes(Tail(placement))

\* the elements of a sequence
Range(q) == {q[i] : i \in DOMAIN q}

RECURSIVE SetInitialNode(_, _)
\* index.initialNode = indexer, for the indexes of an indexer
SetInitialNode(indexes, indexer) ==
    IF indexes = <<>> THEN <<>>
    ELSE <<[Head(indexes) EXCEPT
              !.initialNode = [NodeId |-> indexer.NodeId, NodeUUID |-> indexer.NodeUUID]]>>
            \o SetInitialNode(Tail(indexes), indexer)

\* solutionFromPlan without shuffle: every index starts on the indexer that has it
solutionFromPlan(plan) ==
    LET placement == [n \in DOMAIN plan.Placement |->
                        [plan.Placement[n] EXCEPT
                           !.Indexes = SetInitialNode(@, plan.Placement[n])]]
    IN  [solution |-> [nil |-> FALSE, Placement |-> placement],
         initialIndexes |-> AllIndexes(placement)]

\* solution.findMatchingIndexer(nodeId): the place of the indexer, 0 for nil
findMatchingIndexer(solution, nodeId) ==
    IF \E n \in DOMAIN solution.Placement : solution.Placement[n].NodeId = nodeId
    THEN CHOOSE n \in DOMAIN solution.Placement : solution.Placement[n].NodeId = nodeId
    ELSE 0

\* faulty variant: the candidate is not flagged
MarkDeleteNot(indexer) == indexer

\* candidate.delete = true
MarkDelete(indexer) == [indexer EXCEPT !.delete = TRUE]

RECURSIVE MarkDeleted(_, _, _)
\* the first loop of changeTopology: flags the indexers of deletedNodes and
\* collects them in outNodes (their places), or fails on an unknown node
MarkDeleted(solution, deletedNodes, outNodes) ==
    IF deletedNodes = <<>> THEN [solution |-> solution, outNodes |-> outNodes, err |-> NoErr]
    ELSE LET candidate == findMatchingIndexer(solution, Head(deletedNodes))
         IN  IF candidate = 0
             THEN [solution |-> solution, outNodes |-> outNodes,
                   err |-> Err(<<"Cannot find to-be-deleted indexer in solution">>)]
             ELSE MarkDeleted([solution EXCEPT !.Placement[candidate] = MarkDelete(@)],
                              Tail(deletedNodes), Append(outNodes, candidate))

RECURSIVE OutIndexes(_, _)
\* the second loop of changeTopology: the indexes of the outNodes
OutIndexes(solution, outNodes) ==
    IF outNodes = <<>> THEN <<>>
    ELSE solution.Placement[Head(outNodes)].Indexes \o OutIndexes(solution, Tail(outNodes))

\* indexerNode(rs, "newNode-", sizing): a blank indexer
NewNode(k) ==
    [NodeId |-> <<"newNode-", k>>, NodeUUID |-> <<"newNode-", k>>, delete |-> FALSE,
     Indexes |-> <<>>]

RECURSIVE AddNodes(_, _)
\* the loop of changeTopology that appends config.AddNode blank indexers
AddNodes(placement, count) ==
    IF count = 0 THEN placement
    ELSE AddNodes(Append(placement, NewNode(Len(placement) + 1)), count - 1)

changeTopology(config, solution, deletedNodes) ==
    LET marked == IF Len(deletedNodes) > Len(solution.Placement)
                  THEN [solution |-> solution, outNodes |-> <<>>,
                        err |-> Err(<<"The number of node in cluster is smaller">>)]
                  ELSE MarkDeleted(solution, deletedNodes, <<>>)
    IN  IF marked.err # NoErr
        THEN [solution |-> marked.solution, outIndexes |-> <<>>, err |-> marked.err]
        ELSE [solution |-> [marked.solution EXCEPT
                              !.Placement = AddNodes(@, config.AddNode)],
              outIndexes |-> OutIndexes(marked.solution, marked.outNodes),
              err |-> NoErr]

\* the variant in which only EjectOnly restricts the moves to the deleted nodes
PlacedIndexesEjectOnly(config, outIndexes, initialIndexes) ==
    IF config.EjectOnly THEN outIndexes ELSE initialIndexes

\* the indexes rebalance hands to newRandomPlacement
PlacedIndexes(config, outIndexes, initialIndexes) ==
    IF Len(outIndexes) # 0 THEN outIndexes
    ELSE IF ~config.EjectOnly THEN initialIndexes
    ELSE <<>>

\* the place of the indexer that has the index
HostOf(solution, instId) ==
    CHOOSE n \in DOMAIN solution.Placement :
        \E x \in Range(solution.Placement[n].Indexes) : x.InstId = instId

\* the solution after the indexes of DOMAIN dest were relocated to dest[..]
Relocate(solution, dest) ==
    LET all == AllIndexes(solution.Placement)
        At(x) == IF x.InstId \in DOMAIN dest THEN dest[x.InstId]
                 ELSE HostOf(solution, x.InstId)
    IN  [solution EXCEPT
           !.Placement = [n \in DOMAIN solution.Placement |->
                            [solution.Placement[n] EXCEPT
                               !.Indexes = SelectSeq(all, LAMBDA x : At(x) = n)]]]

\* a node flagged delete still has an index
DeletedNotEmpty(solution) ==
    \E n \in DOMAIN solution.Placement :
        solution.Placement[n].delete /\ solution.Placement[n].Indexes # <<>>

ErrPlanInfeasible == Err(<<"PlanInfeasible">>)

\* SAPlanner.Plan(CommandRebalance, solution): the outcomes of the annealing.
\* A move relocates an index of the placement method that is not pinned to an
\* indexer that is not flagged delete; the result is a failure when the
\* constraint cannot be met or when a node flagged delete is not empty.
PlanRebalance(solution, indexes) ==
    LET movable == {x.InstId : x \in {y \in Range(indexes) : y.Hosts = <<>>}}
        moves == {dest \in [movable -> DOMAIN solution.Placement] :
                     \A i \in movable :
                        \/ ~solution.Placement[dest[i]].delete
                        \/ dest[i] = HostOf(solution, i)}
        results == {Relocate(solution, dest) : dest \in moves}
    IN  {[Result |-> r,
          err |-> IF DeletedNotEmpty(r) THEN ErrPlanInfeasible ELSE NoErr] :
            r \in results}
        \cup {[Result |-> solution, err |-> ErrPlanInfeasible]}

\* initialSolution(config, sizing, nil): rebalance has no indexes when it has no
\* plan, so that indexerNodes makes no indexer (the quota is the positive memory
\* quota of the caller) and InitialPlace places nothing
initialSolution == [solution |-> [nil |-> FALSE, Placement |-> <<>>], initialIndexes |-> <<>>]

\* what genCreateIndexDDL returns when it has nothing to do, or was not called
NoDDL == [handed |-> FALSE, allStmts |-> <<>>, written |-> FALSE, err |-> NoErr]

\* rebalance(config, plan, nil, deletedNodes): the returns it can make, each
\* with the planner (its placement's indexes and its Result) and the error; env
\* says whether savePlan can write the file
rebalance(config, plan, deletedNodes, env) ==
    LET initial == IF ~plan.nil THEN solutionFromPlan(plan) ELSE initialSolution
        changed == changeTopology(config, initial.solution, deletedNodes)
        indexes == PlacedIndexes(config, changed.outIndexes, initial.initialIndexes)
    IN  IF changed.err # NoErr
        THEN {[nil |-> TRUE, planned |-> FALSE, initialIndexes |-> initial.initialIndexes,
               solution |-> changed.solution, indexes |-> <<>>,
               Result |-> changed.solution, saved |-> FALSE, ddl |-> NoDDL,
               err |-> changed.err]}
        ELSE {LET saving == outcome.err = NoErr /\ config.Output # ""
               IN  [nil |-> saving /\ ~env.writable, planned |-> TRUE,
                    initialIndexes |-> initial.initialIndexes,
                    solution |-> changed.solution, indexes |-> indexes,
                    Result |-> outcome.Result,
                    saved |-> saving /\ env.writable, ddl |-> NoDDL,
                    err |-> IF saving /\ ~env.writable
                            THEN Err(<<"Unable to save plan">>)
                            ELSE outcome.err] :
                  outcome \in PlanRebalance(changed.solution, indexes)}

(***************************************************************************)
(* The planner: index usages of a spec.                                    *)
(***************************************************************************)
MaxReplica == 3       \* replicas of an index spec

\* the decimal digit of d
Digit(d) == <<"0", "1", "2", "3", "4", "5", "6", "7", "8", "9">>[d + 1]

RECURSIVE Decimal(_)
\* fmt's %v of a non-negative int: its decimal digits
Decimal(i) == IF i < 10 THEN <<Digit(i)>> ELSE Decimal(i \div 10) \o <<Digit(i % 10)>>

\* faulty variant: every replica keeps the base name
ReplicaNameBase(spec, i) == spec.Name

\* the name of replica i: spec.Name, or fmt.Sprintf("%v_%v", spec.Name, i)
ReplicaName(spec, i) ==
    IF i = 0 THEN spec.Name ELSE spec.Name \o <<"_">> \o Decimal(i)

\* the IndexUsage of replica i of a spec
ReplicaUsage(spec, uuid, i) ==
    [DefnId |-> uuid,
     InstId |-> i,
     Bucket |-> spec.Bucket,
     IsPrimary |-> spec.IsPrimary,
     Name |-> ReplicaName(spec, i),
     Hosts |-> <<>>,
     initialNode |-> NoNode,
     Definition |-> [nil |-> FALSE, Name |-> ReplicaName(spec, i), Bucket |-> spec.Bucket,
                     IsPrimary |-> spec.IsPrimary, SecExprs |-> spec.SecExprs,
                     WhereExpr |-> spec.WhereExpr]]

\* indexUsageFromSpec with what common.NewUUID returned (id, error)
indexUsageFromSpec(spec, uuid) ==
    IF uuid.err # NoErr
    THEN [nil |-> TRUE, result |-> <<>>, err |-> Err(<<"unable to generate UUID">>)]
    ELSE [nil |-> FALSE,
          result |-> [k \in 1..spec.Replica |-> ReplicaUsage(spec, uuid.id, k - 1)],
          err |-> NoErr]

\* index names: sequences of characters
IndexNames == {<<"i", "x">>, <<"i", "x", "_", "1">>}

IndexSpecs ==
    {[Name |-> name, Bucket |-> bucket, IsPrimary |-> primary, SecExprs |-> <<"f">>,
      WhereExpr |-> "", Replica |-> replica] :
        name \in IndexNames, bucket \in {"b1", "b2"}, primary \in BOOLEAN,
        replica \in 0..MaxReplica}

\* what common.NewUUID returns
UUIDs == {[id |-> 0, err |-> Err(<<"rand">>)], [id |-> 7, err |-> NoErr],
          [id |-> 8, err |-> NoErr]}

\* the calls of indexUsageFromSpec
UsageCalls ==
    {[pc |-> "call", op |-> "indexUsageFromSpec", spec |-> spec, uuid |-> uuid] :
        spec \in IndexSpecs, uuid \in UUIDs}

(***************************************************************************)
(* The planner: DDL statements of a solution.                              *)
(***************************************************************************)
\* a nil *IndexDefn, and the definition of an index of a bucket
NoDefinition == [nil |-> TRUE, Name |-> <<>>, Bucket |-> ""]
Definition(name, bucket) == [nil |-> FALSE, Name |-> name, Bucket |-> bucket]

\* a nil *Solution
NoSolution == [nil |-> TRUE, Placement |-> <<>>]

\* an index of a solution: fresh when it has no initial node
PlacedIndex(i, n, fresh, bucket, defined) ==
    [InstId |-> i,
     Definition |-> IF defined THEN Definition(<<"ix", i>>, bucket) ELSE NoDefinition,
     initialNode |-> IF fresh THEN NoNode ELSE IndexerNode(n)]

RECURSIVE PlacedIndexesOn(_, _, _, _, _, _)
\* the indexes i..k of a solution that are on node n
PlacedIndexesOn(n, i, place, fresh, bucket, undefined) ==
    IF i > Len(place) THEN <<>>
    ELSE (IF place[i] = n
          THEN <<PlacedIndex(i, n, fresh[i], bucket[i], i \notin undefined)>>
          ELSE <<>>) \o PlacedIndexesOn(n, i + 1, place, fresh, bucket, undefined)

\* the solutions of a plan: each index on a node, fresh or not, of one of two
\* buckets; the first index may have no definition
PlannedSolutions ==
    UNION {{[nil |-> FALSE,
             Placement |-> [n \in 1..MaxNodes |->
                              [NodeId |-> IndexerNode(n).NodeId,
                               NodeUUID |-> IndexerNode(n).NodeUUID,
                               Indexes |-> PlacedIndexesOn(n, 1, place, fresh, bucket,
                                                           undefined)]]] :
               place \in [1..k -> 1..MaxNodes], fresh \in [1..k -> BOOLEAN],
               bucket \in [1..k -> {"b1", "b2"}], undefined \in {{}, {1} \cap (1..k)}} :
           k \in 0..MaxIndexes}

\* faulty variant: every index with a definition gets statements
NewlyPlacedAny(index) == ~index.Definition.nil

\* index.initialNode == nil && index.Definition != nil
NewlyPlaced(index) == index.initialNode = NoNode /\ ~index.Definition.nil

\* buckets[bucket]: the newly placed indexes of the bucket on the indexer
BucketIndexes(indexer, bucket) ==
    SelectSeq(indexer.Indexes,
              LAMBDA index : NewlyPlaced(index) /\ index.Definition.Bucket = bucket)

\* the keys of the map buckets of an indexer
BucketsOf(indexer) ==
    {index.Definition.Bucket : index \in {x \in Range(indexer.Indexes) : NewlyPlaced(x)}}

\* common.IndexStatement of the definition with Nodes = [indexer.NodeId] and
\* Deferred = true
CreateStatement(index, indexer) ==
    [stmt |-> "CREATE INDEX", Name |-> index.Definition.Name,
     Bucket |-> index.Definition.Bucket, Nodes |-> <<indexer.NodeId>>,
     Deferred |-> TRUE]

\* BUILD INDEX ON bucket(name, ...)
BuildStatement(bucket, indexes) ==
    [stmt |-> "BUILD INDEX", Bucket |-> bucket,
     Names |-> [k \in DOMAIN indexes |-> indexes[k].Definition.Name]]

\* stmts + buildStmt of one bucket of an indexer
BucketStatements(indexer, bucket) ==
    LET indexes == BucketIndexes(indexer, bucket)
    IN  [k \in DOMAIN indexes |-> CreateStatement(indexes[k], indexer)]
            \o <<BuildStatement(bucket, indexes)>>

\* the orders in which range can visit the keys of a map
Orders(keys) ==
    {q \in [1..Cardinality(keys) -> keys] :
        \A i, j \in DOMAIN q : i # j => q[i] # q[j]}

RECURSIVE InOrder(_, _)
\* the statements of an indexer when its buckets are visited in the order
InOrder(indexer, order) ==
    IF order = <<>> THEN <<>>
    ELSE BucketStatements(indexer, Head(order)) \o InOrder(indexer, Tail(order))

RECURSIVE AllStmts(_)
\* the values allStmts can have after the loop over solution.Placement
AllStmts(placement) ==
    IF placement = <<>> THEN {<<>>}
    ELSE {InOrder(Head(placement), order) \o rest :
            order \in Orders(BucketsOf(Head(placement))),
            rest \in AllStmts(Tail(placement))}

\* genCreateIndexDDL: the returns it can make; allStmts is what it hands to
\* ioutil.WriteFile, written whether the file was written
genCreateIndexDDL(ddl, solution, writable) ==
    IF solution.nil \/ ddl = ""
    THEN {NoDDL}
    ELSE {[handed |-> TRUE, allStmts |-> stmts, written |-> writable,
           err |-> IF writable THEN NoErr
                   ELSE Err(<<"Unable to write DDL statements">>)] :
             stmts \in AllStmts(solution.Placement)}

\* the calls of genCreateIndexDDL
DDLCalls ==
    {[pc |-> "call", op |-> "genCreateIndexDDL", ddl |-> ddl, solution |-> sol,
      writable |-> w] :
        ddl \in {"", "ddl.txt"}, sol \in PlannedSolutions \cup {NoSolution},
        w \in BOOLEAN}

(***************************************************************************)
(* The planner: execution of a plan or a rebalance.                        *)
(***************************************************************************)
CommandPlan == "plan"
CommandRebalance == "rebalance"

\* the fields of DefaultRunConfig that the orchestration reads
DefaultRunConfig ==
    [GenStmt |-> "", Resize |-> TRUE, Output |-> "", AllowMove |-> FALSE,
     AllowUnpin |-> FALSE, AddNode |-> 0, EjectOnly |-> FALSE]

\* a nil slice of index specs, and a slice with the specs
NilSpecs == [nil |-> TRUE, specs |-> <<>>]
SpecsOf(specs) == [nil |-> FALSE, specs |-> specs]

\* what the environment does during a call: what the calls of common.NewUUID
\* return, one after the other, whether the plan file (config.Output) can be
\* written and whether the statement file (config.GenStmt) can be written
NoEnv ==
    [uuids |-> <<[id |-> 7, err |-> NoErr], [id |-> 8, err |-> NoErr]>>,
     writable |-> TRUE, ddlWritable |-> TRUE]

RECURSIVE indexUsagesFromSpec(_, _)
\* indexUsagesFromSpec: the usages of all specs, or the first error; every spec
\* has its own call of common.NewUUID, and no call is made after an error
indexUsagesFromSpec(specs, uuids) ==
    IF specs = <<>> THEN [result |-> <<>>, err |-> NoErr]
    ELSE LET usages == indexUsageFromSpec(Head(specs), Head(uuids))
             rest == indexUsagesFromSpec(Tail(specs), Tail(uuids))
         IN  IF usages.err # NoErr THEN [result |-> <<>>, err |-> usages.err]
             ELSE IF rest.err # NoErr THEN rest
             ELSE [result |-> usages.result \o rest.result, err |-> NoErr]

\* index.initialNode != nil && index.initialNode.delete
InitialNodeDeleted(index, solution) ==
    /\ index.initialNode # NoNode
    /\ \E n \in DOMAIN solution.Placement :
          /\ solution.Placement[n].NodeId = index.initialNode.NodeId
          /\ solution.Placement[n].delete

\* index.Hosts = nil in filterPinnedIndexes: the indexes as the loop leaves them
\* (they are shared with the caller and with the solution)
Unpinned(config, indexes, solution) ==
    [k \in DOMAIN indexes |->
        IF config.AllowUnpin \/ InitialNodeDeleted(indexes[k], solution)
        THEN [indexes[k] EXCEPT !.Hosts = <<>>] ELSE indexes[k]]

\* filterPinnedIndexes: the indexes without Hosts, after the Hosts of every
\* index were dropped under AllowUnpin and those of the indexes of deleted nodes
\* in any case
filterPinnedIndexes(config, indexes, solution) ==
    SelectSeq(Unpinned(config, indexes, solution), LAMBDA index : Len(index.Hosts) = 0)

\* emptySolution: a solution without indexers
emptySolution == [solution |-> [nil |-> FALSE, Placement |-> <<>>], initialIndexes |-> <<>>]

RECURSIVE PlacedOn(_, _, _, _)
\* the indexes k.. of the sequence that are put on indexer n (index k on at[k])
PlacedOn(n, k, indexes, at) ==
    IF k > Len(indexes) THEN <<>>
    ELSE (IF at[k] = n THEN <<indexes[k]>> ELSE <<>>) \o PlacedOn(n, k + 1, indexes, at)

\* the solution with the indexes appended to the indexers at[k]
Placed(solution, indexes, at) ==
    [solution EXCEPT
       !.Placement = [n \in DOMAIN solution.Placement |->
                        [solution.Placement[n] EXCEPT
                           !.Indexes = @ \o PlacedOn(n, 1, indexes, at)]]]

RECURSIVE Arrivals(_, _, _, _)
\* the indexes of the indexers m.. that are on indexer n once the indexes of
\* DOMAIN dest that started in the solution went to dest[..]
Arrivals(placement, m, n, dest) ==
    IF m > Len(placement) THEN <<>>
    ELSE SelectSeq(placement[m].Indexes,
                   LAMBDA x : n = (IF x.initialNode # NoNode /\ x.InstId \in DOMAIN dest
                                   THEN dest[x.InstId] ELSE m))
            \o Arrivals(placement, m + 1, n, dest)

\* the solution after the moves dest of indexes that started in it
MoveInitial(solution, dest) ==
    [solution EXCEPT
       !.Placement = [n \in DOMAIN solution.Placement |->
                        [solution.Placement[n] EXCEPT
                           !.Indexes = Arrivals(solution.Placement, 1, n, dest)]]]

\* placement.Add(solution, indexes) and SAPlanner.Plan(CommandPlan, solution):
\* the outcomes.  The indexes added are put on indexers that are not flagged
\* delete (on blank indexers when the solution has none and may be resized), and
\* the indexes of the placement method that started in the solution (movable)
\* may go to such an indexer; the result is a failure when the constraint
\* cannot be met.
PlanPlan(config, solution, indexes, movable) ==
    LET sized == IF solution.Placement = <<>> /\ config.Resize /\ indexes # <<>>
                 THEN [solution EXCEPT !.Placement = AddNodes(<<>>, 2)]
                 ELSE solution
        targets == {n \in DOMAIN sized.Placement : ~sized.Placement[n].delete}
        started == {x.InstId : x \in {y \in Range(movable) : y.initialNode # NoNode}}
    IN  {[Result |-> MoveInitial(Placed(sized, indexes, at), dest), err |-> NoErr] :
            at \in [DOMAIN indexes -> targets], dest \in [started -> targets]}
        \cup {[Result |-> solution, err |-> ErrPlanInfeasible]}

\* plan(config, plan, indexes): the returns it can make.  With a plan and
\* AllowMove the placement method gets the indexes of the plan and the new ones
\* that are not pinned, and every new index is added; otherwise it gets the new
\* indexes that are not pinned and those are added
plan(config, p, indexes, env) ==
    LET initial == IF ~p.nil THEN solutionFromPlan(p) ELSE emptySolution
        withMove == ~p.nil /\ config.AllowMove
        total == filterPinnedIndexes(config, initial.initialIndexes \o indexes,
                                     initial.solution)
        filtered == filterPinnedIndexes(config, indexes, initial.solution)
        placed == IF withMove THEN total ELSE filtered
        added == IF withMove THEN Unpinned(config, indexes, initial.solution)
                 ELSE filtered
        solution ==
            IF withMove
            THEN [initial.solution EXCEPT
                    !.Placement = [n \in DOMAIN @ |->
                                     [@[n] EXCEPT
                                        !.Indexes = Unpinned(config, @, initial.solution)]]]
            ELSE initial.solution
        initialIndexes ==
            IF withMove THEN Unpinned(config, initial.initialIndexes, initial.solution)
            ELSE initial.initialIndexes
        Planner(o, saved, ddl, err) ==
            [nil |-> FALSE, planned |-> TRUE, initialIndexes |-> initialIndexes,
             solution |-> solution, indexes |-> placed, Result |-> o.Result,
             saved |-> saved, ddl |-> ddl, err |-> err]
    IN  UNION {IF o.err # NoErr THEN {Planner(o, FALSE, NoDDL, o.err)}
               ELSE IF config.Output # "" /\ ~env.writable
               THEN {[Planner(o, FALSE, NoDDL, Err(<<"savePlan">>)) EXCEPT !.nil = TRUE]}
               ELSE IF config.GenStmt # ""
               THEN {[Planner(o, config.Output # "", ddl, ddl.err) EXCEPT
                        !.nil = ddl.err # NoErr] :
                       ddl \in genCreateIndexDDL(config.GenStmt, o.Result,
                                                 env.ddlWritable)}
               ELSE {Planner(o, config.Output # "", NoDDL, NoErr)} :
                 o \in PlanPlan(config, solution, added,
                                IF withMove THEN placed ELSE <<>>)}

\* the planner execute returns when it did not get to plan or rebalance
NotPlanned(p, err) ==
    [nil |-> TRUE, planned |-> FALSE, initialIndexes |-> <<>>, solution |-> p,
     indexes |-> <<>>, Result |-> p, saved |-> FALSE, ddl |-> NoDDL, err |-> err]

\* faulty variant: a nil slice of specs passes for an empty one
SpecsPresentAlways(indexSpecs) == TRUE

\* indexSpecs != nil
SpecsPresent(indexSpecs) == ~indexSpecs.nil

\* what a call that panics gives: no return, the panic with its value
Panic(value) == [panic |-> value]

\* plan == nil in execute: the argument is p, so that plan is the function plan
\* of the package, which is never nil
PlanMissing(p) == FALSE

\* execute: the returns it can make, each the planner with the error
execute(config, command, p, indexSpecs, deletedNodes, env) ==
    IF command = CommandPlan
    THEN IF SpecsPresent(indexSpecs)
         THEN LET indexes == indexUsagesFromSpec(indexSpecs.specs, env.uuids)
              IN  IF indexes.err # NoErr THEN {NotPlanned(p, indexes.err)}
                  ELSE plan(config, p, indexes.result, env)
         ELSE {NotPlanned(p, Err(<<"missing argument: index spec must be present">>))}
    ELSE IF command = CommandRebalance
    THEN IF PlanMissing(p)
         THEN {NotPlanned(p, Err(<<"missing argument: either workload or plan must be present">>))}
         ELSE rebalance(config, p, deletedNodes, env)
    ELSE {Panic(<<"uknown command", command>>)}

\* faulty variant: no error is a failure
FailedNever(err) == FALSE

\* err != nil
Failed(err) == err # NoErr

\* the node UUIDs a topology change may eject: known ones, one twice, an unknown
\* one, and more of them than the cluster has nodes
EjectLists ==
    {<<>>, <<IndexerNode(1).NodeUUID>>, <<IndexerNode(MaxNodes).NodeUUID>>,
     <<IndexerNode(1).NodeUUID, IndexerNode(2).NodeUUID>>,
     <<IndexerNode(1).NodeUUID, IndexerNode(1).NodeUUID>>,
     <<IndexerNode(0).NodeUUID>>,
     [i \in 1..(MaxNodes + 1) |-> IndexerNode(1).NodeUUID]}

\* what RetrievePlanFromCluster returns: an error, or the layout of the cluster
Clusters ==
    {[err |-> Err(<<"getIndexLayout">>), plan |-> Layout(<<>>, {})]}
    \cup {[err |-> NoErr, plan |-> l] : l \in Layouts}

RECURSIVE DeleteNodes(_, _)
\* the loop of ExecuteRebalanceInternal over topologyChange.EjectNodes: the node
\* ids of the ejected nodes, or the error for a UUID that no indexer has
DeleteNodes(layout, ejectNodes) ==
    IF ejectNodes = <<>> THEN [deleteNodes |-> <<>>, err |-> NoErr]
    ELSE LET known == {n \in DOMAIN layout.Placement :
                          layout.Placement[n].NodeUUID = Head(ejectNodes)}
             rest == DeleteNodes(layout, Tail(ejectNodes))
         IN  IF known = {}
             THEN [deleteNodes |-> <<>>,
                   err |-> Err(<<"Unable to find indexer node with node UUID">>)]
             ELSE IF Failed(rest.err) THEN rest
             ELSE [deleteNodes |-> <<layout.Placement[CHOOSE n \in known : TRUE].NodeId>>
                                      \o rest.deleteNodes,
                   err |-> NoErr]

\* ExecuteRebalanceInternal: the returns it can make, each with the planner of
\* execute (p) when execute was reached; the tokens are those of any results of
\* common.NewUUID
ExecuteRebalanceInternal(cluster, topologyChange, masterId, addNode, ejectOnly) ==
    LET layout == cluster.plan
        deleted == DeleteNodes(layout, topologyChange.EjectNodes)
        numNode == IF addNode THEN Len(deleted.deleteNodes) ELSE 0
        config == [DefaultRunConfig EXCEPT !.Resize = FALSE, !.AddNode = numNode,
                                           !.EjectOnly = ejectOnly]
        NoPlanner == [nil |-> TRUE, planned |-> FALSE, initialIndexes |-> <<>>,
                      solution |-> layout, indexes |-> <<>>, Result |-> layout,
                      saved |-> FALSE, ddl |-> NoDDL, err |-> NoErr]
    IN  IF Failed(cluster.err)
        THEN {[tokens |-> NilTokens, executed |-> FALSE, p |-> NoPlanner,
               err |-> Err(<<"Unable to read index layout from cluster">>)]}
        ELSE IF deleted.err # NoErr
        THEN {[tokens |-> NilTokens, executed |-> FALSE, p |-> NoPlanner,
               err |-> deleted.err]}
        ELSE {IF Failed(p.err)
              THEN [tokens |-> NilTokens, executed |-> TRUE, p |-> p, err |-> p.err]
              ELSE [tokens |-> TokenMap(genTransferToken(p.Result, masterId,
                                                         topologyChange, uuids)),
                    executed |-> TRUE, p |-> p, err |-> NoErr] :
                 p \in execute(config, CommandRebalance, layout, NilSpecs,
                              deleted.deleteNodes, NoEnv),
                 uuids \in TokenDraws}

\* ExecutePlanWithOptions: the returns it can make: the error, with the planner
\* of execute and whether its layout was printed
ExecutePlanWithOptions(p, indexSpecs, detail, genStmt, output, addNode, allowUnpin, env) ==
    LET config == [DefaultRunConfig EXCEPT !.GenStmt = genStmt, !.Resize = p.nil,
                                           !.Output = output, !.AddNode = addNode,
                                           !.AllowUnpin = allowUnpin]
    IN  {[p |-> pl, printed |-> ~pl.nil /\ detail, err |-> pl.err] :
            pl \in execute(config, CommandPlan, p, indexSpecs, <<>>, env)}

\* ExecuteRebalanceWithOptions: the returns it can make: the error, with the
\* planner of execute; with detail the layout is printed, of a nil planner too
ExecuteRebalanceWithOptions(p, indexSpecs, detail, genStmt, output, addNode, allowUnpin, deletedNodes, env) ==
    LET config == [DefaultRunConfig EXCEPT !.GenStmt = genStmt, !.Resize = FALSE,
                                           !.Output = output, !.AddNode = addNode,
                                           !.AllowUnpin = allowUnpin]
    IN  {[p |-> pl, printed |-> detail, err |-> pl.err] :
            pl \in execute(config, CommandRebalance, p, indexSpecs, deletedNodes, env)}

\* a nil *Plan
NoPlan == [nil |-> TRUE, Placement |-> <<>>]

\* the calls of ExecuteRebalanceWithOptions: without plan or with the plan of a
\* cluster, with and without a node to delete and a node to add
RebalanceOptionCalls ==
    {[pc |-> "call", op |-> "ExecuteRebalanceWithOptions", plan |-> p,
      indexSpecs |-> specs, detail |-> detail, genStmt |-> "", output |-> output,
      addNode |-> add, allowUnpin |-> FALSE, deletedNodes |-> del,
      env |-> [NoEnv EXCEPT !.writable = w]] :
        p \in {NoPlan, Layout(<<1>>, {}), Layout(<<1, 2>>, {})},
        specs \in {NilSpecs, SpecsOf(<<>>)}, detail \in BOOLEAN,
        output \in {"", "plan.json"}, add \in {0, 1},
        del \in {<<>>, <<IndexerNode(1).NodeId>>}, w \in BOOLEAN}

\* two specs of one bucket: two replicas of the first, one of the second
TwoSpecs ==
    <<CHOOSE x \in IndexSpecs : /\ x.Name = <<"i", "x">> /\ x.Bucket = "b1"
                                /\ ~x.IsPrimary /\ x.Replica = 2,
      CHOOSE x \in IndexSpecs : /\ x.Name = <<"i", "x", "_", "1">> /\ x.Bucket = "b1"
                                /\ ~x.IsPrimary /\ x.Replica = 1>>

\* what two calls of common.NewUUID return: two ids, or an error at one of them
UUIDDraws ==
    {<<[id |-> 7, err |-> NoErr], [id |-> 8, err |-> NoErr]>>,
     <<[id |-> 0, err |-> Err(<<"rand">>)], [id |-> 8, err |-> NoErr]>>,
     <<[id |-> 7, err |-> NoErr], [id |-> 0, err |-> Err(<<"rand">>)]>>}

\* the calls of ExecutePlanWithOptions: without plan or with the plan of a
\* cluster, without specs (nil), with no spec, with one spec or with two
PlanCalls ==
    {[pc |-> "call", op |-> "ExecutePlanWithOptions", plan |-> p, indexSpecs |-> specs,
      detail |-> TRUE, genStmt |-> gen, output |-> output, addNode |-> 0,
      allowUnpin |-> unpin,
      env |-> [uuids |-> uuids, writable |-> w, ddlWritable |-> dw]] :
        p \in {NoPlan, Layout(<<>>, {}), Layout(<<1>>, {}), Layout(<<1>>, {1})},
        specs \in {NilSpecs, SpecsOf(<<>>), SpecsOf(TwoSpecs)}
                   \cup {SpecsOf(<<spec>>) :
                            spec \in {x \in IndexSpecs :
                                         x.Name = <<"i", "x">> /\ ~x.IsPrimary}},
        gen \in {"", "ddl.txt"}, output \in {"", "plan.json"}, unpin \in BOOLEAN,
        uuids \in UUIDDraws, w \in BOOLEAN, dw \in BOOLEAN}

(***************************************************************************)
(* Equivalence of index definitions.                                       *)
(***************************************************************************)
\* the index definitions that are compared
IndexDefns ==
    {[Using |-> using, Bucket |-> bucket, IsPrimary |-> FALSE, ExprType |-> "N1QL",
      PartitionScheme |-> "SINGLE", PartitionKey |-> "", WhereExpr |-> where,
      SecExprs |-> exprs] :
        using \in {"forestdb", "memory_optimized"}, bucket \in {"b1", "b2"},
        where \in {"", "w"}, exprs \in {<<>>, <<"a">>, <<"a", "b">>, <<"b">>}}

\* IsEquivalentIndex: the fields are compared (Using of d1 with itself), then
\* every secondary expression of d1 with every one of d2
IsEquivalentIndex(d1, d2) ==
    IF \/ d1.Using # d1.Using
       \/ d1.Bucket # d2.Bucket
       \/ d1.IsPrimary # d2.IsPrimary
       \/ d1.ExprType # d2.ExprType
       \/ d1.PartitionScheme # d2.PartitionScheme
       \/ d1.PartitionKey # d2.PartitionKey
       \/ d1.WhereExpr # d2.WhereExpr
    THEN FALSE
    ELSE \A i \in DOMAIN d1.SecExprs : \A j \in DOMAIN d2.SecExprs :
            d1.SecExprs[i] = d2.SecExprs[j]

\* the calls of IsEquivalentIndex
EquivalentCalls ==
    {[pc |-> "call", op |-> "IsEquivalentIndex", d1 |-> d1, d2 |-> d2] :
        d1 \in IndexDefns, d2 \in IndexDefns}

\* the calls of ExecuteRebalanceInternal
RebalanceCalls ==
    {[pc |-> "call", op |-> "ExecuteRebalanceInternal", cluster |-> c,
      topologyChange |-> [ID |-> "rebal1", EjectNodes |-> ej], masterId |-> "master",
      addNode |-> add, ejectOnly |-> only] :
        c \in Clusters, ej \in EjectLists, add \in BOOLEAN, only \in BOOLEAN}

\* the calls of changeTopology: on the solution of a layout, with node ids to
\* delete that are known, named twice, unknown (alone or after a known one) or
\* more than the solution has nodes
TopologyCalls ==
    {[pc |-> "call", op |-> "changeTopology", config |-> [DefaultRunConfig EXCEPT
                                                            !.AddNode = add],
      solution |-> solutionFromPlan(Layout(place, {})).solution, deletedNodes |-> del] :
        add \in 0..2, place \in {<<>>, <<1>>, <<1, 1, 2>>},
        del \in {<<>>, <<IndexerNode(1).NodeId>>,
                 <<IndexerNode(1).NodeId, IndexerNode(2).NodeId>>,
                 <<IndexerNode(1).NodeId, IndexerNode(1).NodeId>>,
                 <<IndexerNode(0).NodeId>>,
                 <<IndexerNode(1).NodeId, IndexerNode(0).NodeId>>,
                 [i \in 1..(MaxNodes + 1) |-> IndexerNode(1).NodeId]}}

PlannerCalls ==
    RebalanceCalls \cup UsageCalls \cup DDLCalls \cup PlanCalls \cup EquivalentCalls
    \cup RebalanceOptionCalls \cup TopologyCalls

PlannerInit ==
    /\ ClientIdle
    /\ KVIdle
    /\ planner \in PlannerCalls

\* a call of the planner is in progress
Calling(op) == planner.pc = "call" /\ planner.op = op

\* the call returned
Done(op) == planner.pc = "done" /\ planner.op = op

ExecuteRebalance ==
    /\ Calling("ExecuteRebalanceInternal")
    /\ \E out \in ExecuteRebalanceInternal(planner.cluster, planner.topologyChange,
                                           planner.masterId, planner.addNode,
                                           planner.ejectOnly) :
          planner' = [pc |-> "done", op |-> planner.op, call |-> planner, out |-> out]
    /\ UNCHANGED <<clientVars, kvVars>>

IndexUsageFromSpec ==
    /\ Calling("indexUsageFromSpec")
    /\ planner' = [pc |-> "done", op |-> planner.op, call |-> planner,
                   out |-> indexUsageFromSpec(planner.spec, planner.uuid)]
    /\ UNCHANGED <<clientVars, kvVars>>

GenCreateIndexDDL ==
    /\ Calling("genCreateIndexDDL")
    /\ \E out \in genCreateIndexDDL(planner.ddl, planner.solution, planner.writable) :
          planner' = [pc |-> "done", op |-> planner.op, call |-> planner, out |-> out]
    /\ UNCHANGED <<clientVars, kvVars>>

ExecutePlan ==
    /\ Calling("ExecutePlanWithOptions")
    /\ \E out \in ExecutePlanWithOptions(planner.plan, planner.indexSpecs, planner.detail,
                                         planner.genStmt, planner.output, planner.addNode,
                                         planner.allowUnpin, planner.env) :
          planner' = [pc |-> "done", op |-> planner.op, call |-> planner, out |-> out]
    /\ UNCHANGED <<clientVars, kvVars>>

ExecuteRebalanceOptions ==
    /\ Calling("ExecuteRebalanceWithOptions")
    /\ \E out \in ExecuteRebalanceWithOptions(planner.plan, planner.indexSpecs,
                                              planner.detail, planner.genStmt,
                                              planner.output, planner.addNode,
                                              planner.allowUnpin, planner.deletedNodes,
                                              planner.env) :
          planner' = [pc |-> "done", op |-> planner.op, call |-> planner, out |-> out]
    /\ UNCHANGED <<clientVars, kvVars>>

ChangeTopology ==
    /\ Calling("changeTopology")
    /\ planner' = [pc |-> "done", op |-> planner.op, call |-> planner,
                   out |-> changeTopology(planner.config, planner.solution,
                                          planner.deletedNodes)]
    /\ UNCHANGED <<clientVars, kvVars>>

IsEquivalent ==
    /\ Calling("IsEquivalentIndex")
    /\ planner' = [pc |-> "done", op |-> planner.op, call |-> planner,
                   out |-> IsEquivalentIndex(planner.d1, planner.d2)]
    /\ UNCHANGED <<clientVars, kvVars>>

PlannerNext ==
    \/ ExecuteRebalance
    \/ ExecuteRebalanceOptions
    \/ ChangeTopology
    \/ IsEquivalent
    \/ ExecutePlan
    \/ IndexUsageFromSpec
    \/ GenCreateIndexDDL

SpecPlanner == PlannerInit /\ [][PlannerNext]_vars

(***************************************************************************)
(* Properties of the admin client.                                         *)
(***************************************************************************)
NAttempts == Len(wr.attempts)
LastAttempt == wr.attempts[NAttempts]
Refused(a) == a.err # NoErr /\ Contains(a.err[1], "connection refused")
AllRefused == \A i \in 1..NAttempts : Refused(wr.attempts[i])

\* C1: withRetry re-issues the request only after an attempt that failed with a
\* connection-refused message; after a success or any other error no further
\* attempt is made and that attempt's result is what the call returns.
C1_RetryOnlyOnRefused ==
    /\ \A i \in 1..NAttempts : i < NAttempts => Refused(wr.attempts[i])
    /\ (wr.pc = "run" /\ NAttempts > 0) => Refused(LastAttempt)
    /\ wr.pc = "ret" => wr.err = LastAttempt.err
    /\ ret.done => ret.err = wr.err

C1_Witness ==
    /\ ret.done
    /\ NAttempts >= 2
    /\ ret.err = Err(ErrReset)

\* C2 (as claimed): with maxRetries = N > 0 and retryInterval > 0 a call makes at
\* most N attempts, and when every attempt is refused it stops after N attempts
\* with the error of the last one.
C2_StopsAfterMaxRetries ==
    (client.maxRetries > 0 /\ IsPosL(client.retryInterval) /\ wr.pc # "off") =>
        /\ NAttempts <= client.maxRetries
        /\ (wr.pc = "ret" /\ AllRefused) =>
              /\ NAttempts = client.maxRetries
              /\ wr.err = LastAttempt.err

\* C3 (as claimed): with maxRetries = 0 and retryInterval > 0 the call never gives
\* up with an error while the failures are connection-refused, and it returns
\* success as soon as an attempt succeeds.
C3_RetriesIndefinitely ==
    (client.maxRetries = 0 /\ IsPosL(client.retryInterval) /\ wr.pc = "ret") =>
        /\ ~Refused(LastAttempt)
        /\ LastAttempt.err = NoErr => wr.err = NoErr

\* C4: with retryInterval = 0 every call makes exactly one attempt and returns its
\* result, whatever the error, maxRetries and expBackoff.
C4_ZeroIntervalNoRetry ==
    (IsZeroL(client.retryInterval) /\ wr.pc # "off") =>
        /\ NAttempts <= 1
        /\ wr.sleeps = <<>>
        /\ wr.pc = "run" => NAttempts = 0
        /\ wr.pc = "ret" => (NAttempts = 1 /\ wr.err = LastAttempt.err)

C4_Witness ==
    /\ IsZeroL(client.retryInterval)
    /\ client.maxRetries = MaxRetriesCfg
    /\ IsPosL(client.expBackoff)
    /\ wr.pc = "ret"
    /\ wr.err = Err(ErrRefused)

\* wide natural numbers, for the arithmetic the claims state without overflow
WideLimbs == Limbs * (MaxAttempts + 2)

\* time.Sleep(d) returns at once when d <= 0
Slept(d) == IF LeqZeroL(d) THEN NatL(0, WideLimbs) ELSE Widen(d, WideLimbs)

\* retryInterval * expBackoff^(k-1) milliseconds, in nanoseconds, without overflow
ClaimedSleep(c, k) ==
    LET factor == IF IsPosL(c.expBackoff)
                  THEN PowL(Widen(c.expBackoff, WideLimbs), k - 1, WideLimbs)
                  ELSE NatL(1, WideLimbs)
    IN  MulL(MulL(Widen(c.retryInterval, WideLimbs), factor, WideLimbs),
             NatL(Millisecond, WideLimbs), WideLimbs)

\* C5 (as claimed): between attempt k and attempt k+1 withRetry sleeps
\* retryInterval * expBackoff^(k-1) ms (retryInterval ms when expBackoff = 0), and
\* every call starts again from the configured retryInterval.
C5_SleepSchedule ==
    /\ \A k \in 1..Len(wr.sleeps) : Slept(wr.sleeps[k]) = ClaimedSleep(client, k)
    /\ (wr.pc = "run" /\ NAttempts = 0) => wr.interval = client.retryInterval

\* C6 (as claimed): an error reported in the response envelope is returned after
\* that attempt, whatever its text: no further attempt follows it.
C6_SemanticNeverRetried ==
    \A i \in 1..NAttempts :
        wr.attempts[i].src = "envelope" => (i = NAttempts /\ wr.pc = "ret")

\* C7: an ErrorResponseTimeout from an attempt is never retried: the call returns
\* it after that attempt, for any retryInterval, maxRetries and expBackoff.
C7_ResponseTimeoutNotRetried ==
    \A i \in 1..NAttempts :
        wr.attempts[i].err = Errorf(ErrorResponseTimeout) =>
            /\ i = NAttempts
            /\ wr.pc = "ret"
            /\ wr.err = Errorf(ErrorResponseTimeout)
            /\ ret.done => ret.err = Errorf(ErrorResponseTimeout)

C7_Witness ==
    /\ ret.done
    /\ ret.err = Errorf(ErrorResponseTimeout)
    /\ IsPosL(client.retryInterval)
    /\ client.maxRetries = 0
    /\ NAttempts >= 2

OtherTransport(a) ==
    a.src = "transport" /\ a.err \in {Err(ErrReset), Err(ErrIOTimeout)}

\* C8 (as claimed): a connection reset or transport timeout is retried like a
\* connection-refused: with retryInterval > 0 and retries left, the call does not
\* return on such an error.
C8_OtherTransportRetried ==
    ~ /\ wr.pc = "ret"
      /\ OtherTransport(LastAttempt)
      /\ IsPosL(wr.interval)
      /\ ~Expired(wr.maxRetries)

\* C8 (amended): a connection reset or transport timeout is not retried: the call
\* returns it after that attempt, like any error that is not connection-refused.
C8_OtherTransportNotRetried ==
    \A i \in 1..NAttempts :
        OtherTransport(wr.attempts[i]) =>
            /\ i = NAttempts
            /\ wr.pc = "ret"
            /\ wr.err = wr.attempts[i].err

C8_Witness ==
    /\ wr.pc = "ret"
    /\ wr.err = Err(ErrIOTimeout)
    /\ IsPosL(wr.interval)
    /\ ~Expired(wr.maxRetries)
    /\ NAttempts >= 2

\* C9 (as claimed): InitialTopicRequest, MutationTopicRequest, RestartVbuckets and
\* AddBuckets return the TopicResponse the projector answered with, whatever the
\* error: if the projector answered, the returned response is not nil.
C9_ResponseEvenOnError ==
    ( /\ ret.done
      /\ api \in TopicAPIs
      /\ ResponseKind(rpc) = "TopicResponse"
      /\ LastAttempt.src # "transport" ) =>
        /\ ret.res # NoRes
        /\ ret.res = res

(***************************************************************************)
(* Properties of the KV data path.                                         *)
(***************************************************************************)
IsStreamEnd(x) == x.op = "Event" /\ x.event.opcode = "UPR_STREAMEND"

\* a routine lives from its creation until it is sent a StreamEnd
Live(r) == \A i \in 1..Len(routines[r].log) : ~IsStreamEnd(routines[r].log[i])

OneRoutinePerVbucket ==
    \A r1, r2 \in 1..Len(routines) :
        (Live(r1) /\ Live(r2) /\ routines[r1].vbno = routines[r2].vbno) =>
            (r1 = r2 /\ vrs[routines[r1].vbno] = r1)

\* the step receives a StreamRequest(SUCCESS) for a vbucket that has a routine
DuplicateStreamRequest ==
    /\ Len(upstream') = Len(upstream) + 1
    /\ LET m == upstream'[Len(upstream')]
       IN  /\ m.opcode = "UPR_STREAMREQ"
           /\ m.status = "SUCCESS"
           /\ vrs[m.vbucket] # NoRoutine

\* C10: a data path never has two routines for one vbucket number: a
\* StreamRequest(SUCCESS) for a vbucket that has a routine creates no routine,
\* does not replace the existing one and sends nothing to it.
C10_AtMostOneRoutine ==
    /\ []OneRoutinePerVbucket
    /\ [][DuplicateStreamRequest => (vrs' = vrs /\ routines' = routines)]_vars

C10_Witness ==
    /\ kvpc = "run"
    /\ Len(routines) = 1
    /\ \E i, j \in 1..Len(upstream) :
          /\ i < j
          /\ upstream[i].opcode = "UPR_STREAMREQ"
          /\ upstream[i].status = "SUCCESS"
          /\ upstream[i].flog # <<>>
          /\ upstream[j] = upstream[i]
          /\ vrs[upstream[i].vbucket] = 1
          /\ Live(1)

\* the step scatters an upstream event: the event
Scattered == Len(upstream') = Len(upstream) + 1
Event == upstream'[Len(upstream')]

\* the events a routine was handed, in order
IsEvent(x) == x.op = "Event"
Events(r) == SelectSeq(routines[r].log, IsEvent)

\* the step scatters a StreamRequest(SUCCESS) for a vbucket that has no routine
NewStreamRequest ==
    /\ Scattered
    /\ Event.opcode = "UPR_STREAMREQ"
    /\ Event.status = "SUCCESS"
    /\ vrs[Event.vbucket] = NoRoutine

\* exactly one routine is created, seeded with the current engines and endpoints
\* before the StreamRequest, and recorded in the map
RoutineCreated ==
    /\ Len(routines') = Len(routines) + 1
    /\ \A r \in 1..Len(routines) : routines'[r] = routines[r]
    /\ vrs' = [vrs EXCEPT ![Event.vbucket] = Len(routines')]
    /\ LET vr == routines'[Len(routines')]
       IN  /\ vr.vbno = Event.vbucket
           /\ Len(vr.log) = 2
           /\ vr.log[1] = VrAddEngines(engines, endpoints)
           /\ vr.log[2].op = "Event"
           /\ vr.log[2].event.opcode = "UPR_STREAMREQ"
           /\ vr.log[2].event.vbucket = Event.vbucket

\* the step scatters a Mutation, Deletion, Expiration or Snapshot
DataEvent == Scattered /\ Event.opcode \in DataOpcodes

\* the routines created for the vbucket of the event
RoutinesOf(vbno) == {r \in 1..Len(routines) : routines[r].vbno = vbno}

Forwarded(r) == routines'[r].log = Append(routines[r].log, VrEvent(Event))

\* C11 (as claimed): a StreamRequest(SUCCESS) for a vbucket without routine
\* creates exactly one routine, seeds it with the engines and endpoints, forwards
\* the StreamRequest to it and records it in the map; every later data event of
\* the vbucket is forwarded to that routine.
C11_StreamRequestCreatesRoutine ==
    /\ [][NewStreamRequest => RoutineCreated]_vars
    /\ [][DataEvent => \A r \in RoutinesOf(Event.vbucket) : Forwarded(r)]_vars

\* C11 (amended): the routine is created when the failover log of the
\* StreamRequest has a latest entry, and a data event of the vbucket is forwarded
\* to the routine the map holds for it, to no other routine, and to none when
\* the map holds none.
C11_StreamRequestWithLogCreatesRoutine ==
    /\ [][(NewStreamRequest /\ Event.flog # <<>>) => RoutineCreated]_vars
    /\ [][(NewStreamRequest /\ Event.flog = <<>>) =>
             (crashed' /\ Len(routines') = Len(routines) /\ vrs' = vrs)]_vars
    /\ [][DataEvent =>
             /\ vrs' = vrs
             /\ \A r \in 1..Len(routines) :
                   IF vrs[Event.vbucket] = r THEN Forwarded(r)
                   ELSE routines'[r] = routines[r]]_vars

C11_Witness ==
    /\ kvpc = "run"
    /\ Len(routines) = 1
    /\ vrs[routines[1].vbno] = 1
    /\ Len(routines[1].log) = 3
    /\ routines[1].log[1].op = "AddEngines"
    /\ DOMAIN routines[1].log[1].engines = {11, 12}
    /\ routines[1].log[2].event.opcode = "UPR_STREAMREQ"
    /\ routines[1].log[3].op = "Event"
    /\ routines[1].log[3].event.opcode = "UPR_MUTATION"

\* the step scatters a StreamEnd for a vbucket that has a routine
StreamEndOfRoutine ==
    /\ Scattered
    /\ Event.opcode = "UPR_STREAMEND"
    /\ vrs[Event.vbucket] # NoRoutine

\* the StreamEnd is forwarded to the routine and the routine leaves the map
RoutineEnded ==
    /\ Forwarded(vrs[Event.vbucket])
    /\ vrs' = [vrs EXCEPT ![Event.vbucket] = NoRoutine]

\* a routine that was sent a StreamEnd while the loop ran is not in the map, so
\* that a later StreamRequest(SUCCESS) creates another one
EndedNotMapped ==
    \A r \in 1..Len(routines) :
        (kvpc = "run" /\ ~Live(r)) => vrs[routines[r].vbno] # r

\* C12 (as claimed): every StreamEnd for a vbucket that has a routine is forwarded
\* to the routine and removes it from the map.
C12_StreamEndRemovesRoutine ==
    /\ [][StreamEndOfRoutine => RoutineEnded]_vars
    /\ []EndedNotMapped

\* C12 (amended): a StreamEnd with status SUCCESS for a vbucket that has a routine
\* is forwarded to the routine and removes it from the map; a StreamEnd with
\* another status is not forwarded and leaves the routine in the map.
C12_SuccessStreamEndRemovesRoutine ==
    /\ [][(StreamEndOfRoutine /\ Event.status = "SUCCESS") => RoutineEnded]_vars
    /\ [][(StreamEndOfRoutine /\ Event.status # "SUCCESS") =>
             (vrs' = vrs /\ routines' = routines)]_vars
    /\ []EndedNotMapped

C12_Witness ==
    /\ kvpc = "run"
    /\ Len(routines) = 3
    /\ routines[1].vbno = routines[3].vbno
    /\ ~Live(1)
    /\ vrs[routines[3].vbno] = 3

\* the StreamEnd(SUCCESS) of publishStreamEnd
SyntheticStreamEnd == VrEvent(UprEvent("UPR_STREAMEND", 0, "SUCCESS", <<>>))

StreamEnds(r) == SelectSeq(routines[r].log, IsStreamEnd)

IsFin(x) == x = PostFinKVdata
Fins == SelectSeq(posts, IsFin)

\* publishStreamEnd was called
Published == kvpc \in {"post", "close", "done"}

\* the deferred function goes through its steps in order, once
ShutdownOrder ==
    /\ ~Published =>
          /\ Fins = <<>>
          /\ \A r \in Mapped(vrs) : Live(r)
    /\ Published =>
          \A r \in Mapped(vrs) :
              /\ Len(StreamEnds(r)) = 1
              /\ routines[r].log[Len(routines[r].log)] = SyntheticStreamEnd
    /\ kvpc = "post" => Fins = <<>>
    /\ kvpc \in {"close", "done"} =>
          /\ Len(Fins) = 1
          /\ posts[Len(posts)] = PostFinKVdata

ShutdownSteps ==
    {<<"run", "post">>, <<"run", "break">>, <<"break", "post">>, <<"post", "close">>,
     <<"close", "done">>}

\* C13: on every way out of the scatter loop the data path sends one synthetic
\* StreamEnd(SUCCESS) to every routine of the map, then posts FinKVdata once, then
\* closes finch once; after the synthetic StreamEnd no routine is sent anything
\* and no upstream event is taken.
C13_ShutdownSequence ==
    /\ []ShutdownOrder
    /\ [][kvpc' # kvpc => <<kvpc, kvpc'>> \in ShutdownSteps]_vars
    /\ [][kvpc # "run" => (vrs' = vrs /\ upstream' = upstream)]_vars
    /\ [][Published => routines' = routines]_vars

C13_Witness ==
    /\ kvpc = "done"
    /\ Cardinality(Mapped(vrs)) = 2
    /\ crashed

\* call i waits and no reply was sent to it
Pending(i) == i \in 1..Len(calls) /\ calls[i].pc = "wait" /\ replies[i] = <<>>

\* call i returned to its caller with the outcome of a cancellation
Cancelled(i) ==
    /\ i \in 1..Len(calls)
    /\ calls[i].pc = "ret"
    /\ IF calls[i].cmd = "kvCmdGetStats" THEN calls[i].val = <<>>
       ELSE calls[i].err = Err(ErrorClosed)

\* C14 (as claimed): a control call that is unanswered when the data path has
\* shut down, queued or not, returns to its caller with a cancellation outcome:
\* it does not wait forever and it ends in no other way.
C14_NoCallerBlocks ==
    /\ [](\A i \in 1..Len(calls) :
             (calls[i].pc # "wait" /\ replies[i] = <<>>) => Cancelled(i))
    /\ \A i \in 1..MaxInputs : (Pending(i) /\ kvpc = "done") ~> Cancelled(i)

\* the scatter loop takes an UpdateTs command from sbch
HandlesTs ==
    /\ kvpc = "run"
    /\ sbch # <<>>
    /\ Head(sbch).cmd = "kvCmdTs"
    /\ sbch' = Tail(sbch)

\* C15 (as claimed): the scatter loop answers UpdateTs like the other commands:
\* the restart timestamp becomes the union, a reply is sent, the loop keeps
\* running with the same routine map, and UpdateTs returns no error.
C15_UpdateTsReplies ==
    /\ [][HandlesTs =>
             /\ restartTs' = TsUnion(restartTs, Head(sbch).ts)
             /\ replies'[Head(sbch).respch] # <<>>
             /\ kvpc' = "run"
             /\ vrs' = vrs]_vars
    /\ [](\A i \in 1..Len(calls) :
             (calls[i].cmd = "kvCmdTs" /\ calls[i].pc = "ret") => calls[i].err = NoErr)

\* C16: a panic in the scatter loop stays in its data path: the loop is left, the
\* routines of the map are sent StreamEnd, FinKVdata is posted and finch closed,
\* and the sibling data path keeps running with its routine map.
C16_PanicContained ==
    crashed =>
        /\ kvpc # "run"
        /\ \A r \in Mapped(vrs) :
              routines[r].log[Len(routines[r].log)] = SyntheticStreamEnd
        /\ kvpc \in {"close", "done"} => Len(Fins) = 1
        /\ sibling.running
        /\ sibling.vrs = SiblingInit.vrs
        /\ sibling.events < MaxSibling => ENABLED SiblingScatter

C16_Witness ==
    /\ crashed
    /\ kvpc = "done"
    /\ Mapped(vrs) # {}
    /\ sibling.afterCrash
    /\ \E i \in 1..Len(upstream) :
          /\ upstream[i].opcode = "UPR_STREAMREQ"
          /\ upstream[i].status = "SUCCESS"
          /\ upstream[i].flog = <<>>

\* an event as upstream produced it (the data path sets vbuuid and seqno of the
\* StreamRequest it forwards)
AsReceived(x) == UprEvent(x.opcode, x.vbucket, x.status, x.flog)

RECURSIVE AsReceivedAll(_)
AsReceivedAll(evs) ==
    IF evs = <<>> THEN <<>>
    ELSE <<AsReceived(Head(evs).event)>> \o AsReceivedAll(Tail(evs))

RECURSIVE IsSubseq(_, _)
IsSubseq(a, b) ==
    IF a = <<>> THEN TRUE
    ELSE IF b = <<>> THEN FALSE
    ELSE IF Head(a) = Head(b) THEN IsSubseq(Tail(a), Tail(b))
    ELSE IsSubseq(a, Tail(b))

RECURSIVE UpstreamOf(_, _)
\* the upstream events of one vbucket, in upstream order
UpstreamOf(vbno, evs) ==
    IF evs = <<>> THEN <<>>
    ELSE (IF Head(evs).vbucket = vbno THEN <<AsReceived(Head(evs))>> ELSE <<>>)
            \o UpstreamOf(vbno, Tail(evs))

\* the events of a routine without the synthetic StreamEnd of the shutdown
Scatterings(r) ==
    IF Published /\ r \in Mapped(vrs)
    THEN SubSeq(Events(r), 1, Len(Events(r)) - 1)
    ELSE Events(r)

StartsWithStreamRequest(evs) ==
    /\ evs # <<>>
    /\ evs[1].event.opcode = "UPR_STREAMREQ"
    /\ evs[1].event.status = "SUCCESS"

\* C17 (as claimed): what a routine is handed is a subsequence of the upstream
\* events of its vbucket, in upstream order, starting with the StreamRequest that
\* created it.
C17_RoutineGetsUpstreamOrder ==
    \A r \in 1..Len(routines) :
        /\ StartsWithStreamRequest(Events(r))
        /\ IsSubseq(AsReceivedAll(Events(r)), UpstreamOf(routines[r].vbno, upstream))

\* C17 (amended): what a routine is handed is a subsequence of the upstream
\* events of its vbucket, in upstream order, starting with the StreamRequest that
\* created it, followed for a routine still in the map at shutdown by the one
\* synthetic StreamEnd, which is no upstream event.
C17_RoutineGetsUpstreamOrderThenEnd ==
    \A r \in 1..Len(routines) :
        /\ StartsWithStreamRequest(Scatterings(r))
        /\ IsSubseq(AsReceivedAll(Scatterings(r)),
                    UpstreamOf(routines[r].vbno, upstream))
        /\ (Published /\ r \in Mapped(vrs)) =>
              Events(r)[Len(Events(r))] = SyntheticStreamEnd

C17_Witness ==
    /\ kvpc = "done"
    /\ Len(routines) = 1
    /\ routines[1].vbno = 1
    /\ vrs[1] = 1
    /\ Len(Events(1)) = 3
    /\ Events(1)[2].event.opcode = "UPR_SNAPSHOT"
    /\ Len(routines[1].log) = 5

\* the step scatters a StreamRequest answered with ROLLBACK
RollbackStreamRequest ==
    /\ Scattered
    /\ Event.opcode = "UPR_STREAMREQ"
    /\ Event.status = "ROLLBACK"

\* C18: a StreamRequest answered with ROLLBACK creates no routine and does not
\* put the vbucket in the map, it is posted to the feed as it came, and
\* scatterMutation neither fails nor panics on it.
C18_RollbackNotActive ==
    /\ [][RollbackStreamRequest =>
             /\ vrs' = vrs
             /\ Len(routines') = Len(routines)
             /\ posts' = Append(posts, PostStreamRequest(Event))
             /\ ~crashed'
             /\ ScatterMutation(Event, vrs, routines, posts, engines, endpoints,
                                restartTs).err = NoErr]_vars
    /\ [](\A r \in 1..Len(routines) : Events(r)[1].event.status = "SUCCESS")

C18_Witness ==
    /\ kvpc = "run"
    /\ vrs[1] = NoRoutine
    /\ vrs[0] # NoRoutine
    /\ RoutinesOf(1) = {}
    /\ \E i \in 1..Len(posts) :
          /\ posts[i].post = "StreamRequest"
          /\ posts[i].event.status = "ROLLBACK"
          /\ posts[i].event.vbucket = 1

(***************************************************************************)
(* Properties of the planner.                                              *)
(***************************************************************************)
\* the places <<n, j>> of the indexes of a solution
Places(sol) ==
    {<<n, j>> : n \in DOMAIN sol.Placement, j \in 1..MaxIndexes} \cap
    {pl \in (DOMAIN sol.Placement) \X (1..MaxIndexes) :
        pl[2] <= Len(sol.Placement[pl[1]].Indexes)}

IndexAt(sol, pl) == sol.Placement[pl[1]].Indexes[pl[2]]

\* the index at place pl is on another node than the one it started on
HasMoved(sol, pl) == IndexAt(sol, pl).initialNode.NodeId # sol.Placement[pl[1]].NodeId

\* the tokens emitted for the index at place pl
TokensFor(sol, pl) ==
    {k \in DOMAIN planner.tokens : planner.tokens[k].InstId = IndexAt(sol, pl).InstId}

\* C20: genTransferToken emits one token for every index that is on another node
\* than its initial node and none for an index that stayed; the token names the
\* UUID of the initial node as source, the UUID of the final node as destination,
\* the id of the topology change, the master, the state TransferTokenCreated, and
\* the instance id and definition of the index.
C20_OneTokenPerMovedIndex ==
    planner.pc = "done" =>
        LET sol == planner.solution
        IN  /\ Cardinality(DOMAIN planner.tokens)
                  = Cardinality({pl \in Places(sol) : HasMoved(sol, pl)})
            /\ \A pl \in Places(sol) :
                  IF HasMoved(sol, pl)
                  THEN /\ Cardinality(TokensFor(sol, pl)) = 1
                       /\ \A k \in TokensFor(sol, pl) :
                             planner.tokens[k] =
                                [MasterId |-> planner.masterId,
                                 SourceId |-> IndexAt(sol, pl).initialNode.NodeUUID,
                                 DestId |-> sol.Placement[pl[1]].NodeUUID,
                                 RebalId |-> planner.topologyChange.ID,
                                 State |-> "TransferTokenCreated",
                                 InstId |-> IndexAt(sol, pl).InstId,
                                 IndexDefn |-> IndexAt(sol, pl).Definition]
                  ELSE TokensFor(sol, pl) = {}

(***************************************************************************)
(* Properties of a rebalance.                                              *)
(***************************************************************************)
Rebalanced == Done("ExecuteRebalanceInternal")

\* the call that returned, and what it returned
RebalanceCall == planner.call
RebalanceOut == planner.out

\* the node UUIDs the topology change ejects
Ejected == Range(RebalanceCall.topologyChange.EjectNodes)

\* the layout could not be read, or an eject node is unknown
NotExecuted ==
    \/ RebalanceCall.cluster.err # NoErr
    \/ \E u \in Ejected :
          \A n \in DOMAIN RebalanceCall.cluster.plan.Placement :
              RebalanceCall.cluster.plan.Placement[n].NodeUUID # u

\* the rebalance failed: nothing was executed, the topology change was rejected,
\* or the planner reported a failure
RebalanceFailed == NotExecuted \/ RebalanceOut.p.err # NoErr

\* C21: when the rebalance fails (the layout cannot be read, an eject node is
\* unknown, the topology change is rejected or the planner reports no feasible
\* solution), ExecuteRebalanceInternal returns the error with a nil token map,
\* and it returns an error with a nil map in no other case.
C21_FailedRebalanceNoTokens ==
    Rebalanced =>
        /\ RebalanceFailed <=> RebalanceOut.err # NoErr
        /\ RebalanceOut.err # NoErr <=> RebalanceOut.tokens = NilTokens
        /\ NotExecuted <=> ~RebalanceOut.executed

\* the planner failed on a solution in which an index had moved
C21_Witness ==
    /\ Rebalanced
    /\ RebalanceOut.p.planned
    /\ RebalanceOut.err = ErrPlanInfeasible
    /\ RebalanceOut.tokens = NilTokens
    /\ \E uuids \in TokenDraws :
          genTransferToken(RebalanceOut.p.Result, "master",
                           RebalanceCall.topologyChange, uuids) # EmptyMap

\* a rebalance returned a solution without error
RebalanceReturned ==
    Rebalanced /\ RebalanceOut.executed /\ RebalanceOut.p.err = NoErr

\* the instance ids of a sequence of indexes
InstIds(indexes) == {x.InstId : x \in Range(indexes)}

\* the places (indexer, position) of the solution at which the index is
PlacesOf(solution, instId) ==
    {pl \in Places(solution) : IndexAt(solution, pl).InstId = instId}

\* the indexers of the solution that the topology change ejects
EjectedIndexers(solution) ==
    {n \in DOMAIN solution.Placement : solution.Placement[n].NodeUUID \in Ejected}

\* C22: in a solution a rebalance returns without error, every index of the
\* initial layout is on exactly one indexer, no other index is placed, the
\* ejected indexers are the ones flagged delete, and no indexer flagged delete
\* holds an index; a result in which a deleted indexer is not empty comes with
\* an error.
C22_RebalanceSolutionValid ==
    /\ RebalanceReturned =>
          LET result == RebalanceOut.p.Result
          IN  /\ \A i \in InstIds(RebalanceOut.p.initialIndexes) :
                    Cardinality(PlacesOf(result, i)) = 1
              /\ InstIds(AllIndexes(result.Placement))
                    = InstIds(RebalanceOut.p.initialIndexes)
              /\ \A n \in DOMAIN result.Placement :
                    result.Placement[n].delete <=> n \in EjectedIndexers(result)
              /\ \A n \in EjectedIndexers(result) : result.Placement[n].Indexes = <<>>
    /\ Rebalanced /\ RebalanceOut.p.planned /\ DeletedNotEmpty(RebalanceOut.p.Result)
          => RebalanceOut.err # NoErr /\ RebalanceOut.tokens = NilTokens

\* an ejected indexer had an index, and the rebalance returned
C22_Witness ==
    /\ RebalanceReturned
    /\ \E x \in Range(RebalanceOut.p.initialIndexes) : x.initialNode.NodeUUID \in Ejected
    /\ Len(AllIndexes(RebalanceOut.p.Result.Placement)) = MaxIndexes
    /\ RebalanceOut.tokens.m # EmptyMap

\* the indexes of the initial layout that are on an ejected indexer
OnDeleted ==
    {x.InstId : x \in {y \in Range(RebalanceOut.p.initialIndexes) :
                          y.initialNode.NodeUUID \in Ejected}}

\* the indexes handed to the placement method
Eligible == InstIds(RebalanceOut.p.indexes)

\* C23 as stated: the indexes eligible to move are those of the deleted nodes
\* only when EjectOnly is set, and every index of the layout otherwise.
C23_RestrictedOnlyWhenEjectOnly ==
    Rebalanced /\ RebalanceOut.p.planned =>
        Eligible = IF RebalanceCall.ejectOnly THEN OnDeleted
                   ELSE InstIds(RebalanceOut.p.initialIndexes)

\* C23 amended: the indexes eligible to move are those of the deleted nodes
\* whenever a deleted node hosts an index, with or without EjectOnly; when no
\* deleted node hosts an index they are every index of the layout without
\* EjectOnly and none with EjectOnly.
C23_RestrictedWhenDeletedHostsIndex ==
    Rebalanced /\ RebalanceOut.p.planned =>
        Eligible = IF OnDeleted # {} THEN OnDeleted
                   ELSE IF RebalanceCall.ejectOnly THEN {}
                   ELSE InstIds(RebalanceOut.p.initialIndexes)

\* without EjectOnly, only the indexes of the deleted node are eligible
C23_Witness ==
    /\ Rebalanced
    /\ RebalanceOut.p.planned
    /\ ~RebalanceCall.ejectOnly
    /\ OnDeleted # {}
    /\ OnDeleted # InstIds(RebalanceOut.p.initialIndexes)
    /\ Eligible = OnDeleted

(***************************************************************************)
(* Properties of the index usages of a spec.                               *)
(***************************************************************************)
Expanded == Done("indexUsageFromSpec")

\* the usages returned for the spec
Usages == planner.out.result

\* the name C24 gives replica i: the base name, followed by '_i' when i > 0
ExpectedName(base, i) ==
    IF i = 0 THEN base
    ELSE base \o <<"_">> \o
         (IF i < 10 THEN <<Digit(i)>> ELSE <<Digit(i \div 10), Digit(i % 10)>>)

\* C24: indexUsageFromSpec expands a spec with Replica = R into R usages that
\* share one definition id and have the instance ids 0..R-1; replica 0 has the
\* base name of the spec and replica i > 0 the base name followed by '_i', so
\* the names are pairwise distinct; a spec with Replica = 0 yields no usage.
\* (The only failure is that of the UUID generator.)
C24_ReplicaExpansion ==
    Expanded =>
        /\ planner.out.err # NoErr <=> planner.call.uuid.err # NoErr
        /\ planner.out.err = NoErr =>
              /\ Len(Usages) = planner.call.spec.Replica
              /\ \A k \in DOMAIN Usages :
                    /\ Usages[k].DefnId = planner.call.uuid.id
                    /\ Usages[k].InstId = k - 1
                    /\ Usages[k].Name = ExpectedName(planner.call.spec.Name, k - 1)
                    /\ Usages[k].Definition.Name = Usages[k].Name
                    /\ Usages[k].Bucket = planner.call.spec.Bucket
              /\ \A j, k \in DOMAIN Usages : j # k => Usages[j].Name # Usages[k].Name

\* a spec with three replicas was expanded
C24_Witness ==
    /\ Expanded
    /\ planner.out.err = NoErr
    /\ planner.call.spec.Replica = MaxReplica
    /\ Len(Usages) = MaxReplica

(***************************************************************************)
(* Properties of the DDL statements.                                       *)
(***************************************************************************)
\* genCreateIndexDDL handed its statements to the file
Emitted == Done("genCreateIndexDDL") /\ planner.out.handed

Statements == planner.out.allStmts

\* the positions of the CREATE INDEX statements of an index name
CreatesOf(name) ==
    {k \in DOMAIN Statements :
        Statements[k].stmt = "CREATE INDEX" /\ Statements[k].Name = name}

\* the positions of the BUILD INDEX statements
Builds == {k \in DOMAIN Statements : Statements[k].stmt = "BUILD INDEX"}

\* an index without initial node that has a definition
IsNew(x) == x.initialNode = NoNode /\ ~x.Definition.nil

\* the names of the new indexes of a bucket on an indexer
NewNames(indexer, bucket) ==
    {x.Definition.Name : x \in {y \in Range(indexer.Indexes) :
                                   IsNew(y) /\ y.Definition.Bucket = bucket}}

\* C25: genCreateIndexDDL emits, for every new index of the solution (no initial
\* node, definition present), exactly one CREATE INDEX statement, whose nodes
\* list is the indexer that hosts it and whose defer_build is true, and for
\* every (indexer, bucket) with such an index exactly one BUILD INDEX statement,
\* which lists the names of that pair's indexes and no other; an index that had
\* an initial node is in no statement.
C25_DDLStatements ==
    Emitted =>
        LET sol == planner.call.solution
        IN  /\ \A n \in DOMAIN sol.Placement :
                  \A x \in Range(sol.Placement[n].Indexes) :
                      IF IsNew(x)
                      THEN /\ Cardinality(CreatesOf(x.Definition.Name)) = 1
                           /\ \A k \in CreatesOf(x.Definition.Name) :
                                 /\ Statements[k].Nodes = <<sol.Placement[n].NodeId>>
                                 /\ Statements[k].Deferred
                                 /\ Statements[k].Bucket = x.Definition.Bucket
                      ELSE \/ x.Definition.nil
                           \/ /\ CreatesOf(x.Definition.Name) = {}
                              /\ \A k \in Builds :
                                    x.Definition.Name \notin Range(Statements[k].Names)
            /\ \A n \in DOMAIN sol.Placement : \A b \in {"b1", "b2"} :
                  LET mine == {k \in Builds :
                                  /\ Statements[k].Bucket = b
                                  /\ Range(Statements[k].Names) = NewNames(sol.Placement[n], b)
                                  /\ Len(Statements[k].Names)
                                        = Cardinality(NewNames(sol.Placement[n], b))}
                  IN  NewNames(sol.Placement[n], b) # {} => Cardinality(mine) = 1
            /\ Cardinality(Builds)
                  = Cardinality({nb \in (DOMAIN sol.Placement) \X {"b1", "b2"} :
                                    NewNames(sol.Placement[nb[1]], nb[2]) # {}})
            /\ Len(Statements) - Cardinality(Builds)
                  = Cardinality({pl \in Places(sol) : IsNew(IndexAt(sol, pl))})

\* an indexer got two new indexes of one bucket and has an old index too
C25_Witness ==
    /\ Emitted
    /\ \E n \in DOMAIN planner.call.solution.Placement :
          /\ Cardinality(NewNames(planner.call.solution.Placement[n], "b1")) = 2
          /\ \E x \in Range(planner.call.solution.Placement[n].Indexes) :
                x.initialNode # NoNode /\ ~x.Definition.nil
    /\ Cardinality(Builds) = 1
    /\ Len(Statements) = 3

(***************************************************************************)
(* Properties of the pinned indexes and of a plan without specs.           *)
(***************************************************************************)
\* C26: a pinned index (non-empty Hosts) of a rebalance is never among the
\* indexes handed to the placement method, and in the solution returned it is
\* on an indexer of its Hosts list (AllowUnpin is not set in a rebalance).
C26_PinnedNotMovable ==
    Rebalanced /\ RebalanceOut.p.planned =>
        /\ \A x \in Range(RebalanceOut.p.indexes) : x.Hosts = <<>>
        /\ RebalanceReturned =>
              \A pl \in Places(RebalanceOut.p.Result) :
                  LET x == IndexAt(RebalanceOut.p.Result, pl)
                  IN  x.Hosts # <<>> =>
                         RebalanceOut.p.Result.Placement[pl[1]].NodeId \in Range(x.Hosts)

\* C27: IsEquivalentIndex(d1, d2) is false whenever d1.Using differs from
\* d2.Using.
C27_UsingDistinguishes ==
    Done("IsEquivalentIndex") /\ planner.call.d1.Using # planner.call.d2.Using
        => ~planner.out

Planned == Done("ExecutePlanWithOptions")

\* C28: when indexSpecs is nil, ExecutePlanWithOptions returns the 'index spec
\* must be present' error of execute; no solution was built and no plan file
\* and no DDL file were written, with or without an existing plan.
C28_NilSpecsNoPlan ==
    Planned /\ planner.call.indexSpecs.nil =>
        /\ planner.out.err = Err(<<"missing argument: index spec must be present">>)
        /\ ~planner.out.p.planned
        /\ planner.out.p.nil
        /\ ~planner.out.p.saved
        /\ ~planner.out.p.ddl.handed
        /\ ~planner.out.printed

\* nil specs with a plan and with file names for the plan and the statements
C28_Witness ==
    /\ Planned
    /\ planner.call.indexSpecs.nil
    /\ ~planner.call.plan.nil
    /\ planner.call.genStmt # ""
    /\ planner.call.output # ""
    /\ planner.call.env.writable
    /\ planner.out.err # NoErr

(***************************************************************************)
(* Termination of the scatter loop.                                        *)
(***************************************************************************)
\* C29: once the upstream channel of a data path is closed, the scatter loop
\* exits and its shutdown sequence runs to the end, whatever commands are
\* queued, when the loop and its deferred function are scheduled fairly.
C29_ClosedUpstreamExits ==
    (mutch = "closed") ~> (kvpc = "done" /\ Len(Fins) = 1)

\* the loop was left with routines in the map and commands in the queue, without
\* a panic and without a Close: the upstream was closed
C29_Witness ==
    /\ mutch = "closed"
    /\ kvpc = "done"
    /\ ~crashed
    /\ Mapped(vrs) # {}
    /\ sbch # <<>>
    /\ \A i \in DOMAIN replies : replies[i] # <<"nil">>
    /\ Len(Fins) = 1

\* the step scatters an event that is a failure of its vbucket only: a
\* StreamRequest that was refused or that is a duplicate, a StreamEnd or a data
\* event for a vbucket without routine
PerVbucketFailure ==
    /\ Scattered
    /\ \/ Event.opcode = "UPR_STREAMREQ"
          /\ (Event.status # "SUCCESS" \/ vrs[Event.vbucket] # NoRoutine)
       \/ Event.opcode = "UPR_STREAMEND" /\ vrs[Event.vbucket] = NoRoutine
       \/ Event.opcode \in DataOpcodes /\ vrs[Event.vbucket] = NoRoutine

\* C30: an event that is a failure of a single vbucket never ends the data
\* path: after it the scatter loop is still running, also when the routine map
\* is empty at that moment.
C30_FailureKeepsRunning ==
    [][PerVbucketFailure => kvpc' = "run"]_vars

(***************************************************************************)
(* The back-channel of the data path.                                      *)
(***************************************************************************)
\* post p is the post of the given kind for upstream event m
IsPostOf(kind, p, m) ==
    /\ p.post = kind
    /\ p.event.opcode = m.opcode
    /\ p.event.vbucket = m.vbucket
    /\ p.event.status = m.status

\* the step adds exactly one post, of the given kind, for the event
PostsOne(kind) ==
    /\ Len(posts') = Len(posts) + 1
    /\ SubSeq(posts', 1, Len(posts)) = posts
    /\ IsPostOf(kind, posts'[Len(posts')], Event)

\* one PostStreamRequest for a StreamRequest, one PostStreamEnd for a StreamEnd,
\* nothing for a data event
PostedOnce ==
    CASE Event.opcode = "UPR_STREAMREQ" -> PostsOne("StreamRequest")
      [] Event.opcode = "UPR_STREAMEND" -> PostsOne("StreamEnd")
      [] OTHER -> posts' = posts

\* the event is handed to a routine in this step when the code hands it: to the
\* routine it creates, or to the routine that a StreamEnd(SUCCESS) ends
HandedWhenDue ==
    /\ (NewStreamRequest /\ Event.flog # <<>>) =>
          /\ Len(routines') = Len(routines) + 1
          /\ LET log == routines'[Len(routines')].log
             IN  /\ log # <<>>
                 /\ log[Len(log)].op = "Event"
                 /\ log[Len(log)].event.opcode = "UPR_STREAMREQ"
                 /\ log[Len(log)].event.vbucket = Event.vbucket
    /\ (StreamEndOfRoutine /\ Event.status = "SUCCESS") =>
          Forwarded(vrs[Event.vbucket])

\* the StreamRequest for which FailoverLog.Latest() fails
LatestPanics == NewStreamRequest /\ Event.flog = <<>>

\* C31 (as claimed): the data path posts exactly one PostStreamRequest for every
\* upstream StreamRequest and exactly one PostStreamEnd for every upstream
\* StreamEnd, whatever the status and duplicates included, and nothing for a
\* Mutation, Deletion, Expiration or Snapshot; an event that is handed to a
\* routine is handed before its post.
C31_OnePostPerStreamEvent ==
    [][Scattered => (PostedOnce /\ HandedWhenDue)]_vars

\* C31 (amended): as claimed for every event that scatterMutation handles to
\* its end; a StreamRequest(SUCCESS) for a vbucket without routine whose
\* failover log has no latest entry panics before the post: nothing is posted
\* for it and the loop is left.
C31_OnePostPerHandledStreamEvent ==
    /\ [][(Scattered /\ ~LatestPanics) => (PostedOnce /\ HandedWhenDue)]_vars
    /\ [][LatestPanics => (posts' = posts /\ crashed' /\ kvpc' = "post")]_vars

\* a StreamRequest that made a routine, its duplicate, a data event and a
\* StreamEnd that failed were scattered: three posts, none for the data event
C31_Witness ==
    /\ kvpc = "run"
    /\ Len(upstream) = 4
    /\ Len(routines) = 1
    /\ Len(posts) = 3
    /\ upstream[2] = upstream[1]
    /\ upstream[3].opcode \in DataOpcodes
    /\ upstream[4].opcode = "UPR_STREAMEND"
    /\ upstream[4].status # "SUCCESS"
    /\ IsPostOf("StreamRequest", posts[1], upstream[1])
    /\ IsPostOf("StreamRequest", posts[2], upstream[2])
    /\ IsPostOf("StreamEnd", posts[3], upstream[4])

\* the step scatters a data event for a vbucket that has no routine
UnknownData == DataEvent /\ vrs[Event.vbucket] = NoRoutine

\* C32: a Mutation, Deletion, Expiration or Snapshot event for a vbucket that
\* has no routine is dropped: no routine is created, no routine is sent
\* anything, and the routine map, the engine set and the endpoint set stay as
\* they were.
C32_UnknownVbucketDropped ==
    [][UnknownData =>
          /\ routines' = routines
          /\ vrs' = vrs
          /\ engines' = engines
          /\ endpoints' = endpoints]_vars

\* vbucket 0 has a routine, and a data event of vbucket 1, which has none, was
\* scattered after it
C32_Witness ==
    /\ kvpc = "run"
    /\ Len(upstream) = 2
    /\ upstream[1].opcode = "UPR_STREAMREQ"
    /\ upstream[2].opcode \in DataOpcodes
    /\ upstream[2].vbucket # upstream[1].vbucket
    /\ vrs[upstream[2].vbucket] = NoRoutine
    /\ vrs[upstream[1].vbucket] = 1
    /\ Len(routines) = 1
    /\ Len(routines[1].log) = 2

(***************************************************************************)
(* The control commands of the data path.                                  *)
(***************************************************************************)
\* the scatter loop takes a command of the given kind from sbch
Handles(cmd) ==
    /\ kvpc = "run"
    /\ sbch # <<>>
    /\ Head(sbch).cmd = cmd
    /\ sbch' = Tail(sbch)

\* map new is map old overridden / extended by map add
Overridden(old, new, add) ==
    /\ DOMAIN new = (DOMAIN old) \cup (DOMAIN add)
    /\ \A k \in DOMAIN new : new[k] = IF k \in DOMAIN add THEN add[k] ELSE old[k]

\* every routine of the map is sent msg in this step, the others nothing
SentToMapped(msg) ==
    /\ Len(routines') = Len(routines)
    /\ \A r \in 1..Len(routines) :
          IF \E v \in Vbuckets : vrs[v] = r
          THEN routines'[r] = [routines[r] EXCEPT !.log = Append(@, msg)]
          ELSE routines'[r] = routines[r]

\* the command is answered with nil in this step
Answered == replies'[Head(sbch).respch] = <<"nil">>

\* C33: handling AddEngines(E, P) only grows the state of the data path: the
\* engine set becomes the previous one overridden / extended by E, the endpoint
\* set the previous one overridden / extended by P (an empty or nil argument
\* changes nothing), every routine of the map is sent the resulting sets, the
\* reply is sent, the routine map is unchanged and the loop goes on; handling
\* the same command again changes neither set.
C33_AddEnginesGrows ==
    [][Handles("kvCmdAddEngines") =>
          /\ Overridden(engines, engines', Head(sbch).engines)
          /\ Overridden(endpoints, endpoints', Head(sbch).endpoints)
          /\ Head(sbch).engines = EmptyMap => engines' = engines
          /\ Head(sbch).endpoints = EmptyMap => endpoints' = endpoints
          /\ \A k \in DOMAIN engines : k \in DOMAIN engines'
          /\ \A k \in DOMAIN endpoints : k \in DOMAIN endpoints'
          /\ Overridden(engines', engines', Head(sbch).engines)
          /\ Overridden(endpoints', endpoints', Head(sbch).endpoints)
          /\ SentToMapped(VrAddEngines(engines', endpoints'))
          /\ Answered
          /\ vrs' = vrs
          /\ kvpc' = "run"]_vars

\* the same AddEngines was handled twice with a routine in the map: engine 11
\* was overridden, engine 12 added, and the routine was sent the sets twice
C33_Witness ==
    /\ kvpc = "run"
    /\ Len(routines) = 1
    /\ vrs[routines[1].vbno] = 1
    /\ Len(replies) = 2
    /\ replies[1] = <<"nil">>
    /\ replies[2] = <<"nil">>
    /\ DOMAIN engines = {11, 12}
    /\ engines[11] = "engine2"
    /\ DOMAIN endpoints = {"raddr1", "raddr2"}
    /\ Len(routines[1].log) = 4
    /\ routines[1].log[3] = VrAddEngines(engines, endpoints)
    /\ routines[1].log[4] = VrAddEngines(engines, endpoints)

\* the engine ids a routine holds after the messages 1..n of its log: AddEngines
\* adds the ids it carries, DeleteEngines removes the ids it lists
RECURSIVE EnginesKnown(_, _)
EnginesKnown(log, n) ==
    IF n = 0 THEN {}
    ELSE LET before == EnginesKnown(log, n - 1)
             msg == log[n]
         IN  CASE msg.op = "AddEngines" -> before \cup DOMAIN msg.engines
               [] msg.op = "DeleteEngines" -> before \ msg.keys
               [] OTHER -> before

\* every routine of the map holds the engines of the data path
RoutinesFollowEngines ==
    \A v \in Vbuckets :
        vrs[v] # NoRoutine =>
            EnginesKnown(routines[vrs[v]].log, Len(routines[vrs[v]].log)) = DOMAIN engines

\* C34: handling DeleteEngines(keys) removes exactly the listed ids from the
\* engine set (an id the set does not have is a no-op), sends the deletion to
\* every routine of the map, answers, and leaves the endpoint set and the routine
\* map unchanged; a routine created afterwards is seeded with the engine set as
\* it is then, without the deleted engines, so that every routine of the map
\* holds the engines of the data path.
C34_DeleteEnginesRemoves ==
    /\ [][Handles("kvCmdDelEngines") =>
             /\ DOMAIN engines' = (DOMAIN engines) \ Head(sbch).keys
             /\ \A k \in DOMAIN engines' : engines'[k] = engines[k]
             /\ SentToMapped(VrDeleteEngines(Head(sbch).keys))
             /\ Answered
             /\ endpoints' = endpoints
             /\ vrs' = vrs
             /\ kvpc' = "run"]_vars
    /\ [][(NewStreamRequest /\ Event.flog # <<>>) =>
             routines'[Len(routines')].log[1] = VrAddEngines(engines, endpoints)]_vars
    /\ []RoutinesFollowEngines

\* engines 11 and 12 were there and a routine was in the map when {11, 13} was
\* deleted; the routine made by a later StreamRequest was seeded with 12 only
C34_Witness ==
    /\ kvpc = "run"
    /\ Len(routines) = 2
    /\ vrs[routines[1].vbno] = 1
    /\ vrs[routines[2].vbno] = 2
    /\ DOMAIN engines = {12}
    /\ Len(routines[1].log) = 4
    /\ routines[1].log[3].op = "AddEngines"
    /\ DOMAIN routines[1].log[3].engines = {11, 12}
    /\ routines[1].log[4] = VrDeleteEngines({11, 13})
    /\ routines[2].log[1] = VrAddEngines(engines, endpoints)
    /\ replies[2] = <<"nil">>

\* call i is a Close that the scatter loop answered
ClosedAnswered(i) ==
    /\ i \in 1..Len(calls)
    /\ calls[i].cmd = "kvCmdClose"
    /\ replies[i] # <<>>

\* C35: a Close of a running data path is acknowledged before the data path
\* shuts down: the handler puts the reply on the reply channel and then leaves
\* the loop, the Close call returns without error however the caller's wait
\* and the closing of finch interleave, and the shutdown sequence then runs to
\* its end.
C35_CloseAcknowledged ==
    /\ [][Handles("kvCmdClose") => (Answered /\ kvpc' = "break" /\ ~crashed')]_vars
    /\ [](\A i \in 1..Len(calls) :
             (ClosedAnswered(i) /\ calls[i].pc # "wait") =>
                 (calls[i].pc = "ret" /\ calls[i].err = NoErr))
    /\ \A i \in 1..MaxInputs : ClosedAnswered(i) ~> (kvpc = "done")

\* call i is a GetStatistics that ended without an answer of the scatter loop
StatsUnanswered(i) ==
    /\ i \in 1..Len(calls)
    /\ calls[i].cmd = "kvCmdGetStats"
    /\ calls[i].pc # "wait"
    /\ replies[i] = <<>>

\* C36: a GetStatistics on a data path that has shut down, or that shuts down
\* before it answers, completes as a cancelled control operation and returns
\* to its caller; it does not fail on the reply that is missing.
C36_GetStatisticsCancelled ==
    \A i \in 1..Len(calls) : StatsUnanswered(i) => calls[i].pc = "ret"

(***************************************************************************)
(* Properties of the orchestration: missing arguments and topology.        *)
(***************************************************************************)
\* ExecuteRebalanceWithOptions returned from a call without plan
RebalancedWithoutPlan ==
    /\ Done("ExecuteRebalanceWithOptions")
    /\ planner.call.plan.nil

\* C37: execute with the command Rebalance and a nil plan returns the error
\* 'missing argument: either workload or plan must be present', and it builds
\* no solution, changes no topology and does not run the planner.
C37_NilPlanRebalanceFails ==
    RebalancedWithoutPlan =>
        /\ planner.out.err =
              Err(<<"missing argument: either workload or plan must be present">>)
        /\ planner.out.p.nil
        /\ ~planner.out.p.planned
        /\ planner.out.p.solution = planner.call.plan

\* changeTopology returned: the solution before and after, and the ids named
TopologyChanged == Done("changeTopology")
Before == planner.call.solution.Placement
After == planner.out.solution.Placement
Named == Range(planner.call.deletedNodes)

\* how often the index with the instance id is in the list
Occurrences(indexes, instId) ==
    Cardinality({i \in DOMAIN indexes : indexes[i].InstId = instId})

\* the instance ids of the indexes on the nodes that were named
OnNamed ==
    UNION {InstIds(Before[n].Indexes) : n \in {k \in DOMAIN Before : Before[k].NodeId \in Named}}

\* C38: changeTopology is all-or-nothing.  When it returns an error no node of
\* the solution is flagged delete and none is appended; when it succeeds exactly
\* the named nodes are flagged, exactly AddNode blank nodes are appended, and the
\* list it returns has every index of a deleted node exactly once and no other,
\* also when a node is named twice.
C38_ChangeTopologyAllOrNothing ==
    TopologyChanged =>
        IF planner.out.err # NoErr
        THEN After = Before
        ELSE /\ Len(After) = Len(Before) + planner.call.config.AddNode
             /\ \A n \in DOMAIN Before :
                   /\ After[n].delete <=> (Before[n].NodeId \in Named)
                   /\ After[n].Indexes = Before[n].Indexes
             /\ \A n \in (DOMAIN After) \ (DOMAIN Before) :
                   /\ ~After[n].delete
                   /\ After[n].Indexes = <<>>
             /\ \A x \in InstIds(AllIndexes(Before)) :
                   Occurrences(planner.out.outIndexes, x) =
                       IF x \in OnNamed THEN 1 ELSE 0

\* the two definitions agree on every field but Using and the expressions
AgreeOnFields(d1, d2) ==
    /\ d1.Bucket = d2.Bucket
    /\ d1.IsPrimary = d2.IsPrimary
    /\ d1.ExprType = d2.ExprType
    /\ d1.PartitionScheme = d2.PartitionScheme
    /\ d1.PartitionKey = d2.PartitionKey
    /\ d1.WhereExpr = d2.WhereExpr

\* C39: IsEquivalentIndex is an equivalence test on definitions: a definition
\* is equivalent to itself, also with two or more distinct secondary
\* expressions; the result does not depend on the order of the arguments; and
\* two definitions that agree on bucket, primary flag, expression type,
\* partition scheme, partition key and where-clause are equivalent exactly when
\* their lists of secondary expressions are equal element by element.
C39_EquivalenceOnDefinitions ==
    Done("IsEquivalentIndex") =>
        LET d1 == planner.call.d1
            d2 == planner.call.d2
        IN  /\ d1 = d2 => planner.out
            /\ planner.out = IsEquivalentIndex(d2, d1)
            /\ AgreeOnFields(d1, d2) => (planner.out <=> d1.SecExprs = d2.SecExprs)

====
